---- MODULE Spec2Model ----
(***************************************************************************)
(* AudifyAI call-audit backend: the audit orchestration engine.            *)
(*   app/services/gemini_service.py  GeminiService (file audit pipeline,   *)
(*                                   response parsing, parallel fan-out)   *)
(*   app/routers/audit.py            /audit, /audit/async, job table,      *)
(*                                   score and summary                     *)
(*   app/services/file_service.py    validate_and_save_files,              *)
(*                                   get_file_info, cleanup_files          *)
(*   prompts/audit_prompts.py        the criterion catalog                 *)
(*                                                                         *)
(* A text is a sequence of pieces (strings) whose concatenation is the     *)
(* text.  Free text returned by the oracle is given character by           *)
(* character, so that the parser's substring and pattern searches are      *)
(* computed; fixed messages of the program are single pieces.              *)
(***************************************************************************)
EXTENDS Integers, Sequences, FiniteSets, TLC

\* Bounds of the model.
NumFiles == 2

----------------------------------------------------------------------------
(* Text helpers: str.lower, `in`, str.split, str.strip, ' '.join, re.search *)

UpperCase == <<"A","B","C","D","E","F","G","H","I","J","K","L","M",
               "N","O","P","Q","R","S","T","U","V","W","X","Y","Z">>
LowerCase == <<"a","b","c","d","e","f","g","h","i","j","k","l","m",
               "n","o","p","q","r","s","t","u","v","w","x","y","z">>
Digits == {"0","1","2","3","4","5","6","7","8","9"}
Whitespace == {" ", "\n", "\t"}

LowerChar(c) ==
  IF \E i \in 1..Len(UpperCase) : UpperCase[i] = c
  THEN LowerCase[CHOOSE i \in 1..Len(UpperCase) : UpperCase[i] = c]
  ELSE c

\* text.lower()
lower(text) == [i \in 1..Len(text) |-> LowerChar(text[i])]

\* pat in text
Contains(text, pat) ==
  \E i \in 1..(Len(text) - Len(pat) + 1) : SubSeq(text, i, i + Len(pat) - 1) = pat

\* text.split('\n')
RECURSIVE split(_)
split(text) ==
  IF \A i \in 1..Len(text) : text[i] # "\n"
  THEN <<text>>
  ELSE LET n == CHOOSE i \in 1..Len(text) :
                  text[i] = "\n" /\ \A j \in 1..(i - 1) : text[j] # "\n"
       IN <<SubSeq(text, 1, n - 1)>> \o split(SubSeq(text, n + 1, Len(text)))

\* line.strip()
RECURSIVE strip(_)
strip(line) ==
  IF line = <<>> THEN <<>>
  ELSE IF line[1] \in Whitespace THEN strip(Tail(line))
  ELSE IF line[Len(line)] \in Whitespace THEN strip(SubSeq(line, 1, Len(line) - 1))
  ELSE line

\* ' '.join(lines)
RECURSIVE join(_)
join(lines) ==
  IF lines = <<>> THEN <<>>
  ELSE IF Len(lines) = 1 THEN lines[1]
  ELSE lines[1] \o <<" ">> \o join(Tail(lines))

\* End of the maximal run of digits that starts at position i.
RECURSIVE DigitRunEnd(_, _)
DigitRunEnd(text, i) ==
  IF i < Len(text) /\ text[i + 1] \in Digits THEN DigitRunEnd(text, i + 1) ELSE i

\* Positions where re.search(r'(\d+)%', text) can match.
PercentMatches(text) ==
  {i \in 1..Len(text) :
     /\ text[i] \in Digits
     /\ DigitRunEnd(text, i) < Len(text)
     /\ text[DigitRunEnd(text, i) + 1] = "%"}

Min(S) == CHOOSE x \in S : \A y \in S : x <= y

----------------------------------------------------------------------------
(* GeminiService._parse_response                                           *)

MarkerWords == {<<"y","e","s">>, <<"n","o">>,
                <<"c","o","n","f","i","d","e","n","c","e">>, <<"%">>}

ParseVerdict(text) ==
  IF Contains(lower(text), <<"y","e","s">>) THEN "Yes"
  ELSE IF Contains(lower(text), <<"n","o">>) THEN "No"
  ELSE "Unknown"

ParseConfidence(text) ==
  IF PercentMatches(text) = {} THEN <<"N/A">>
  ELSE LET i == Min(PercentMatches(text))
       IN SubSeq(text, i, DigitRunEnd(text, i)) \o <<"%">>

\* The loop over the lines: the stripped non-empty lines after the first
\* marker line that are not marker lines themselves.
RECURSIVE ReasoningLines(_, _)
ReasoningLines(lines, found_verdict) ==
  IF lines = <<>> THEN <<>>
  ELSE IF \E w \in MarkerWords : Contains(lower(Head(lines)), w)
       THEN ReasoningLines(Tail(lines), TRUE)
  ELSE IF found_verdict /\ strip(Head(lines)) # <<>>
       THEN <<strip(Head(lines))>> \o ReasoningLines(Tail(lines), found_verdict)
  ELSE ReasoningLines(Tail(lines), found_verdict)

ParseReasoning(text) ==
  LET reasoning_lines == ReasoningLines(split(text), FALSE)
  IN IF reasoning_lines # <<>> THEN join(reasoning_lines) ELSE text

_parse_response(text) ==
  [verdict |-> ParseVerdict(text),
   confidence |-> ParseConfidence(text),
   reasoning |-> ParseReasoning(text)]

----------------------------------------------------------------------------
(* The request, the catalog and the oracle                                 *)

Files == 1..NumFiles
\* The identifier uuid4 draws for a job, and the identifiers a caller may
\* ask about: that one and one no job has.
JobIds == {"job-a"}
\* The identifiers of the jobs that share the table, and the task of a job
\* that has not been submitted.
TableIds == JobIds \cup {"job-b"}
NoTask == [at |-> "none", saved_files |-> 0, results |-> <<>>]
AskedIds == TableIds \cup {"job-x"}

\* The identifiers of the criterion catalog (the keys of AUDIT_PROMPTS).
AUDIT_PROMPTS == {"greeting", "introduction", "active-listening", "empathy",
                  "clarity", "solution-oriented", "product-knowledge",
                  "objection-handling", "closing", "follow-up"}

\* The parameter lists of the requests, and a criterion they do not name.
Requests == {<<"greeting">>, <<"greeting", "empathy">>}
Unrequested == "closing"

\* Optional values: None, or the one value held.
None == {}
Some(x) == {x}

\* The category each entry of AUDIT_PROMPTS carries.
Category ==
  [p \in AUDIT_PROMPTS |->
     CASE p \in {"greeting", "introduction"} -> "Opening"
       [] p \in {"active-listening", "empathy", "clarity"} -> "Communication"
       [] p = "solution-oriented" -> "Problem Solving"
       [] p = "product-knowledge" -> "Knowledge"
       [] p = "objection-handling" -> "Sales"
       [] p \in {"closing", "follow-up"} -> "Closing"]

\* prompts.audit_prompts.get_all_parameters: an entry for each key of
\* AUDIT_PROMPTS; name and description are both the entry's description.
get_all_parameters ==
  [param_id \in AUDIT_PROMPTS |->
     [name |-> <<"description of ", param_id>>,
      description |-> <<"description of ", param_id>>,
      category |-> Category[param_id]]]

\* get_prompt_for_parameter with no fallback: AUDIT_PROMPTS[parameter] is
\* looked up whatever the parameter, and raises for an unknown one.
get_prompt_for_parameter_strict(parameter) ==
  IF parameter \in AUDIT_PROMPTS
  THEN [src |-> "catalog", parameters |-> <<parameter>>]
  ELSE [src |-> "KeyError", parameters |-> <<>>]

\* prompts.audit_prompts.get_prompt_for_parameter
get_prompt_for_parameter(parameter) ==
  IF parameter \in AUDIT_PROMPTS
  THEN [src |-> "catalog", parameters |-> <<parameter>>]
  ELSE [src |-> "generic", parameters |-> <<parameter>>]

\* _get_prompt_for_parameter with the override map not looked at.
_get_prompt_for_parameter_catalog(parameter, custom) ==
  get_prompt_for_parameter(parameter)

\* GeminiService._get_prompt_for_parameter; custom is the set of the
\* criteria that have an override instruction.
_get_prompt_for_parameter(parameter, custom) ==
  IF custom # {} /\ parameter \in custom
  THEN [src |-> "custom", parameters |-> <<parameter>>]
  ELSE get_prompt_for_parameter(parameter)

\* prompts.audit_prompts.get_combined_prompt: one instruction covering all
\* the requested criteria.
get_combined_prompt(params) == [src |-> "combined", parameters |-> params]

\* What the oracle answers to a single-criterion instruction.
TextYes == <<"Y","e","s"," ","8","0","%","\n","o","k">>
OracleTexts == {TextYes}
ParamResponses ==
  {[ok |-> FALSE, text |-> <<>>]} \cup {[ok |-> TRUE, text |-> t] : t \in OracleTexts}

\* str(e) of a failed oracle call and of a failed file read.
OracleError == "oracle call failed"
FileError == "cannot read file"

\* A record of the `results` list of a combined response; has is the set
\* of its keys.
RecordKeys == {"parameter", "verdict", "confidence", "reasoning"}
GoodRecord(p) ==
  [parameter |-> p, verdict |-> "Yes", confidence |-> <<"9","0","%">>,
   reasoning |-> <<"heard">>, has |-> RecordKeys]
BareRecord(p) ==
  [parameter |-> p, verdict |-> "Yes", confidence |-> <<"9","0","%">>,
   reasoning |-> <<>>, has |-> RecordKeys \ {"reasoning"}]

Reverse(s) == [i \in 1..Len(s) |-> s[Len(s) + 1 - i]]
Listed(params) == [i \in 1..Len(params) |-> GoodRecord(params[i])]

\* The `results` lists the oracle is taken to answer with: all the criteria
\* in request order, in reverse order, the first one omitted, the first one
\* twice, an unrequested one added, the first one without its rationale.
ResultLists(params) ==
  { Listed(params),
    Reverse(Listed(params)),
    Tail(Listed(params)),
    <<GoodRecord(params[1])>> \o Listed(params),
    Listed(params) \o <<GoodRecord(Unrequested)>>,
    <<BareRecord(params[1])>> \o Tail(Listed(params)) }

\* The text of a combined response: an opening fence, a body, a closing
\* fence.  The body is not JSON ("garbage"), a JSON value that is no object
\* ("array"), or an object, with or without a `results` list; the oracle
\* is taken to answer with garbage or with an object.  "fence" is
\* the three-backquote marker and "fence json" the one followed by json.
Fences == {[open |-> "", close |-> ""], [open |-> "fence json", close |-> "fence"],
           [open |-> "fence", close |-> "fence"]}
Bodies(params) ==
  {[t |-> "garbage", has_results |-> FALSE, results |-> <<>>],
   [t |-> "object", has_results |-> FALSE, results |-> <<>>]}
  \cup {[t |-> "object", has_results |-> TRUE, results |-> l] : l \in ResultLists(params)}
ListedBody(params) == [t |-> "object", has_results |-> TRUE, results |-> Listed(params)]
NoBody == [t |-> "garbage", has_results |-> FALSE, results |-> <<>>]

\* What the oracle answers to a combined instruction: a failure, any of the
\* bodies unfenced, or the body listing all the criteria inside fences.
CombinedResponses(params) ==
  {[ok |-> FALSE, open |-> "", close |-> "", body |-> NoBody]}
  \cup {[ok |-> TRUE, open |-> "", close |-> "", body |-> b] : b \in Bodies(params)}
  \cup {[ok |-> TRUE, open |-> f.open, close |-> f.close, body |-> ListedBody(params)] :
          f \in Fences}

----------------------------------------------------------------------------
(* GeminiService: the verdicts                                             *)

Verdict(parameter, verdict, confidence, reasoning) ==
  [parameter |-> parameter, verdict |-> verdict,
   confidence |-> confidence, reasoning |-> reasoning]

\* _audit_parameter: the verdict for one criterion from one oracle call.
_audit_parameter(parameter, resp) ==
  IF resp.ok
  THEN LET parsed == _parse_response(strip(resp.text))
       IN Verdict(parameter, parsed.verdict, parsed.confidence, parsed.reasoning)
  ELSE Verdict(parameter, "Unknown", <<"N/A">>, <<"Error: ", OracleError>>)

\* audit_file_optimized, lines 183-190: the fences are removed.
clean_text(resp) ==
  LET a == IF resp.open = "fence json" THEN [resp EXCEPT !.open = ""] ELSE resp
      b == IF a.open = "fence" THEN [a EXCEPT !.open = ""] ELSE a
      c == IF b.close = "fence" THEN [b EXCEPT !.close = ""] ELSE b
  IN c

\* json.loads raises JSONDecodeError.
JSONDecodeError(resp) ==
  LET c == clean_text(resp)
  IN c.open # "" \/ c.close # "" \/ c.body.t = "garbage"

\* parsed_response.get("results", []) raises on a value that is no object.
AttributeError(resp) == clean_text(resp).body.t # "object"

\* lines 196-204: the records that have all four keys, in the order given.
RECURSIVE formatted_results(_)
formatted_results(results) ==
  IF results = <<>> THEN <<>>
  ELSE IF RecordKeys \subseteq Head(results).has
       THEN <<Verdict(Head(results).parameter, Head(results).verdict,
                      Head(results).confidence, Head(results).reasoning)>>
            \o formatted_results(Tail(results))
  ELSE formatted_results(Tail(results))

NotProcessed == <<"Parameter not processed in combined response">>

\* missing_results with the fill-in loop left out.
missing_results_none(params, processed_params) == <<>>

\* lines 206-215: a placeholder for each requested criterion no record names.
RECURSIVE missing_results(_, _)
missing_results(params, processed_params) ==
  IF params = <<>> THEN <<>>
  ELSE IF Head(params) \notin processed_params
       THEN <<Verdict(Head(params), "Unknown", <<"N/A">>, NotProcessed)>>
            \o missing_results(Tail(params), processed_params)
  ELSE missing_results(Tail(params), processed_params)

\* lines 192-217: the verdict list of a combined response that decodes.
decode_combined(resp, params) ==
  LET body == clean_text(resp).body
      results == IF body.has_results THEN body.results ELSE <<>>
      formatted == formatted_results(results)
      processed_params == {formatted[i].parameter : i \in 1..Len(formatted)}
  IN formatted \o missing_results(params, processed_params)

\* combined_outcome with `except Exception` (line 227) missing: a failed
\* call propagates.
combined_outcome_uncaught(resp) ==
  IF ~resp.ok THEN "raise"
  ELSE IF JSONDecodeError(resp) THEN "except JSONDecodeError"
  ELSE IF AttributeError(resp) THEN "raise"
  ELSE "decoded"

\* combined_outcome with the per-criterion calls made whatever the combined
\* response was.
combined_outcome_never_decoded(resp) ==
  IF ~resp.ok THEN "except Exception" ELSE "except JSONDecodeError"

\* combined_outcome with the decode failure swallowed: nothing is decoded
\* and placeholders stand for every criterion.
combined_outcome_swallowed(resp) ==
  IF ~resp.ok THEN "except Exception" ELSE "decoded"

\* How the combined call ends: "decoded", or the handler that takes over.
combined_outcome(resp) ==
  IF ~resp.ok THEN "except Exception"
  ELSE IF JSONDecodeError(resp) THEN "except JSONDecodeError"
  ELSE IF AttributeError(resp) THEN "except Exception"
  ELSE "decoded"

\* error_results with no verdict made up for the failed file.
error_results_none(params, e) == <<>>

\* audit_multiple_files_parallel, lines 254-261: the verdicts of a file
\* whose pipeline raised.
error_results(params, e) ==
  [i \in 1..Len(params) |->
     Verdict(params[i], "Unknown", <<"N/A">>, <<"Error processing file: ", e>>)]

----------------------------------------------------------------------------
(* Score, summary and the per-file result (app/routers/audit.py)           *)

\* float(confidence.replace("%", "")): the number, or -1 for ValueError.
RECURSIVE DigitsValue(_)
DigitsValue(ds) ==
  IF ds = <<>> THEN 0
  ELSE 10 * DigitsValue(SubSeq(ds, 1, Len(ds) - 1))
       + (CHOOSE d \in 0..9 : ToString(d) = ds[Len(ds)])

ConfidenceValue(confidence) ==
  LET ds == SelectSeq(confidence, LAMBDA c : c # "%")
  IN IF ds # <<>> /\ \A i \in 1..Len(ds) : ds[i] \in Digits
     THEN DigitsValue(ds) ELSE -1

RECURSIVE total_score(_)
total_score(audit_results) ==
  IF audit_results = <<>> THEN 0
  ELSE (IF Head(audit_results).verdict = "Yes"
        THEN IF ConfidenceValue(Head(audit_results).confidence) >= 0
             THEN ConfidenceValue(Head(audit_results).confidence) ELSE 100
        ELSE 0)
       + total_score(Tail(audit_results))

\* valid_results with the indeterminate verdicts counted too.
valid_results_all(audit_results) == Len(audit_results)

valid_results(audit_results) ==
  Len(SelectSeq(audit_results, LAMBDA r : r.verdict \in {"Yes", "No"}))

\* _calculate_overall_score: the score as the fraction <<numerator, denominator>>.
_calculate_overall_score(audit_results) ==
  IF audit_results = <<>> THEN <<0, 1>>
  ELSE IF valid_results(audit_results) > 0
       THEN <<total_score(audit_results), valid_results(audit_results)>>
  ELSE <<0, 1>>

\* sum([r.overall_score or 0 for r in results]) as a fraction.
RECURSIVE sum_scores(_)
sum_scores(rs) ==
  IF rs = <<>> THEN <<0, 1>>
  ELSE LET a == IF Head(rs).overall_score = None THEN <<0, 1>>
                ELSE CHOOSE x \in Head(rs).overall_score : TRUE
           b == sum_scores(Tail(rs))
       IN <<a[1] * b[2] + b[1] * a[2], a[2] * b[2]>>

\* _generate_overall_summary with the mean taken over the files that have a
\* score other than 0.
_generate_overall_summary_scored(rs) ==
  IF rs = <<>>
  THEN [text |-> "No files were processed.", total_files |-> 0,
        successful_files |-> 0, avg_score |-> <<0, 1>>]
  ELSE [text |-> "Processed files", total_files |-> Len(rs),
        successful_files |-> Len(SelectSeq(rs, LAMBDA r : r.overall_score # None)),
        avg_score |-> <<sum_scores(rs)[1],
                        sum_scores(rs)[2] * (1 + Len(SelectSeq(rs, LAMBDA r :
                           r.overall_score \notin {None, Some(<<0, 1>>)})))>>]

\* _generate_overall_summary
_generate_overall_summary(rs) ==
  IF rs = <<>>
  THEN [text |-> "No files were processed.", total_files |-> 0,
        successful_files |-> 0, avg_score |-> <<0, 1>>]
  ELSE [text |-> "Processed files", total_files |-> Len(rs),
        successful_files |-> Len(SelectSeq(rs, LAMBDA r : r.overall_score # None)),
        avg_score |-> <<sum_scores(rs)[1], sum_scores(rs)[2] * Len(rs)>>]

\* FileService.get_file_info raises FileNotFoundError for a file that is gone.
get_file_info_raises(f, fs) == fs[f] = "missing"

\* The size os.stat reports for file f.
StatSize(f) == 1000 + f

\* AuditResult(parameter=..., verdict=..., confidence=..., reasoning=...)
AuditResult(r) == Verdict(r.parameter, r.verdict, r.confidence, r.reasoning)

\* The body of the per-file loop of audit_files (lines 97-137) and of
\* process_audit_job (lines 557-604): the FileAuditResult of file f.
FileAuditResult(f, audit_results, fs, error_text) ==
  IF get_file_info_raises(f, fs)
  THEN [filename |-> f, file_size |-> 0, results |-> <<>>,
        overall_score |-> Some(<<0, 1>>),
        summary |-> Some(<<error_text, "File not found">>)]
  ELSE [filename |-> f, file_size |-> StatSize(f),
        results |-> [i \in 1..Len(audit_results) |-> AuditResult(audit_results[i])],
        overall_score |-> Some(_calculate_overall_score(audit_results)),
        summary |-> None]

\* FileService.cleanup_files: every file is removed; nothing is raised.
cleanup_files(fs) == [f \in DOMAIN fs |-> "missing"]

----------------------------------------------------------------------------
(* State                                                                   *)

VARIABLES
  stage,              \* where the request handler or the background task is
  mode,               \* "sync" (/audit), "optimized" (/audit/optimized),
                      \* "stream" (/audit/stream) or "async" (/audit/async)
  parameters,         \* audit_request.parameters
  custom_prompts,     \* the criteria audit_request.custom_prompts overrides
  file_state,         \* saved_files on disk: "ok", "unreadable", "missing"
  pc,                 \* per file: where its audit_file_optimized task is
  acc,                \* per file: the verdicts its task has so far / returns
  path,               \* per file: the branch that led to per-criterion mode
  oracle_log,         \* per file: the oracle calls made, in order
  all_audit_results,  \* what audit_multiple_files_parallel returned
  results,            \* the list of FileAuditResult being built
  response,           \* the AuditResponse of /audit, once returned
  audit_jobs,         \* the job table
  job_id,             \* the job of the asynchronous submission
  validity,           \* what parsing and validation make of the request
  events,             \* the events the progress stream has yielded, in order
  arg,                \* the function applied on its own, and its argument
  ret,                \* what it returned, once it has
  job_tasks,          \* per job of the shared table: where its background task is
  http_error          \* the HTTPException a refused submission is answered with

vars == <<stage, mode, parameters, custom_prompts, file_state, pc, acc, path,
          oracle_log, all_audit_results, results, response,
          audit_jobs, job_id, validity, events, arg, ret, job_tasks, http_error>>

request_vars == <<mode, parameters, custom_prompts, job_id, validity>>
task_vars == <<pc, acc, path, oracle_log>>

\* No call of a function on its own.
NoCall == [fn |-> "none"]

\* The state after construction: no request has arrived, the job table
\* (audit.py line 14) is empty.
Idle ==
  /\ stage = "idle"
  /\ mode = "none"
  /\ parameters = <<>>
  /\ custom_prompts = {}
  /\ file_state = [f \in Files |-> "missing"]
  /\ pc = [f \in Files |-> "idle"]
  /\ acc = [f \in Files |-> <<>>]
  /\ path = [f \in Files |-> "none"]
  /\ oracle_log = [f \in Files |-> <<>>]
  /\ all_audit_results = <<>>
  /\ results = <<>>
  /\ response = None
  /\ audit_jobs = <<>>
  /\ job_id = "none"
  /\ validity = "ok"
  /\ events = <<>>
  /\ job_tasks = [j \in TableIds |-> NoTask]
  /\ http_error = None

Init ==
  /\ Idle
  /\ arg = NoCall
  /\ ret = None

\* The states of the staged files when validate_and_save_files returns.
FileStates == [Files -> {"ok", "unreadable", "missing"}]

\* The override maps a request may carry: none (or an empty one), one for
\* its first criterion, or one for a criterion it does not name.
CustomChoices(params) == {{}, {params[1]}, {Unrequested}}

----------------------------------------------------------------------------
(* GeminiService.audit_file_optimized and audit_file, one task per file    *)

\* An oracle call: the instruction sent, whether the call returned, and what
\* it returned: the kind of body and the records of a combined response, the
\* text of a single-criterion response.
LogEntry(kind, prompt, ok, body, records, text) ==
  [kind |-> kind, prompt |-> prompt, ok |-> ok, body |-> body,
   records |-> records, text |-> text]

\* The kind of body of a combined response, as an oracle call is recorded
\* with: an object that has no `results` key is told from one that has.
body_kind(body) ==
  IF body.t = "object" /\ ~body.has_results THEN "object without results" ELSE body.t

\* audit_file, lines 28-31 and 50-52: the file is read; a failed read is
\* logged and raised again.
audit_file_enters(f) == IF file_state[f] = "ok" THEN "percrit" ELSE "raised"

\* audit_file_next with the loop left at the first failed call.
audit_file_next_break(k, m, resp) == IF k < m /\ resp.ok THEN "percrit" ELSE "done"

\* audit_file, lines 44-48: after the call for criterion k of m the loop
\* goes on to the next criterion, whatever the call returned.
audit_file_next(k, m, resp) == IF k < m THEN "percrit" ELSE "done"

Resolved(f) == pc[f] \in {"done", "raised"}

\* The tasks that are inside an oracle call.  model.generate_content (lines
\* 69 and 177) is the blocking call, made on the thread of the event loop;
\* `await self.audit_file(...)` and `await self._audit_parameter(...)` (lines
\* 45, 164, 225, 230) enter a coroutine that never gives the loop back.  A
\* task that has been run therefore keeps the loop until it resolves.
in_oracle_call(p) == {f \in Files : p[f] \in {"combined", "percrit"}}

\* The event loop can run something else: no task is inside an oracle call.
loop_free == in_oracle_call(pc) = {}

\* first_ready with the task created last run first.
first_ready_lifo(p) ==
  CHOOSE f \in Files : p[f] = "pending" /\ \A g \in Files : p[g] = "pending" => g <= f

\* The task the event loop runs next: tasks are created in file order
\* (lines 240-246, audit.py line 327) and the loop runs the ready ones in
\* the order they were created.
first_ready(p) == Min({f \in Files : p[f] = "pending"})

\* The stages at which the event loop may hold tasks of the batch: while
\* gather waits for them (line 246), and, for the tasks the progress stream
\* created (audit.py line 327), for as long as they have not resolved,
\* whatever has become of the stream.
TaskStages == {"gathering", "streaming", "disconnected", "closed"}

\* The task starts: audit_file_optimized up to its first oracle call.  A
\* failed read (line 150) is taken by `except Exception` (line 227), which
\* calls audit_file (line 230), whose own read then decides.
StartPipeline(f) ==
  /\ stage \in TaskStages
  /\ pc[f] = "pending"
  /\ loop_free
  /\ f = first_ready(pc)
  /\ IF file_state[f] # "ok"
     THEN /\ pc' = [pc EXCEPT ![f] = audit_file_enters(f)]
          /\ path' = [path EXCEPT ![f] = "except Exception"]
     ELSE IF custom_prompts # {}
     THEN /\ pc' = [pc EXCEPT ![f] = audit_file_enters(f)]
          /\ path' = [path EXCEPT ![f] = "custom"]
     ELSE /\ pc' = [pc EXCEPT ![f] = "combined"]
          /\ path' = path
  /\ UNCHANGED <<stage, request_vars, file_state, acc, oracle_log,
                 all_audit_results, results, response, audit_jobs, events, arg, ret, job_tasks, http_error>>

\* The combined oracle call returns or fails (lines 177-230).
CombinedReturn(f) ==
  /\ pc[f] = "combined"
  /\ \E resp \in CombinedResponses(parameters) :
       LET outcome == combined_outcome(resp)
       IN /\ oracle_log' = [oracle_log EXCEPT ![f] =
                 Append(@, LogEntry("combined", get_combined_prompt(parameters),
                                    resp.ok, body_kind(resp.body), resp.body.results,
                                    <<>>))]
          /\ IF outcome = "decoded"
             THEN /\ pc' = [pc EXCEPT ![f] = "done"]
                  /\ acc' = [acc EXCEPT ![f] = decode_combined(resp, parameters)]
                  /\ path' = path
             ELSE IF outcome \in {"except JSONDecodeError", "except Exception"}
             THEN /\ pc' = [pc EXCEPT ![f] = audit_file_enters(f)]
                  /\ acc' = acc
                  /\ path' = [path EXCEPT ![f] = outcome]
             ELSE /\ pc' = [pc EXCEPT ![f] = "raised"]
                  /\ acc' = acc
                  /\ path' = [path EXCEPT ![f] = outcome]
  /\ UNCHANGED <<stage, request_vars, file_state, all_audit_results, results,
                 response, audit_jobs, events, arg, ret, job_tasks, http_error>>

\* Per-criterion mode: the oracle call for the next criterion returns or
\* fails (audit_file lines 44-48, _audit_parameter).
ParamReturn(f) ==
  /\ pc[f] = "percrit"
  /\ \E resp \in ParamResponses :
       LET k == Len(acc[f]) + 1
           parameter == parameters[k]
       IN /\ oracle_log' = [oracle_log EXCEPT ![f] =
                 Append(@, LogEntry("param",
                                    _get_prompt_for_parameter(parameter, custom_prompts),
                                    resp.ok, "text", <<>>, resp.text))]
          /\ acc' = [acc EXCEPT ![f] = Append(@, _audit_parameter(parameter, resp))]
          /\ pc' = [pc EXCEPT ![f] = audit_file_next(k, Len(parameters), resp)]
  /\ UNCHANGED <<stage, request_vars, file_state, path, all_audit_results,
                 results, response, audit_jobs, events, arg, ret, job_tasks, http_error>>

----------------------------------------------------------------------------
(* GeminiService.audit_multiple_files_parallel                             *)

\* asyncio.gather: position i of its result holds the result of the i-th
\* task passed to it.
gather(tasks) == tasks

\* What the task of file f resolved to: its verdicts, or the verdicts made
\* up for the exception it raised (lines 250-264).
task_result(f) ==
  IF pc[f] = "raised" THEN error_results(parameters, FileError) ELSE acc[f]

\* processed_results with the files whose task raised skipped.
processed_results_skipping ==
  LET order == SelectSeq(gather([i \in 1..NumFiles |-> i]), LAMBDA f : pc[f] # "raised")
  IN [i \in 1..Len(order) |-> [file |-> order[i], verdicts |-> acc[order[i]]]]

\* The list returned; each entry is tagged with the file whose task made it.
processed_results ==
  LET order == gather([i \in 1..NumFiles |-> i])
  IN [i \in 1..Len(order) |-> [file |-> order[i], verdicts |-> task_result(order[i])]]

\* Every task has resolved: gather returns, the list is built and returned.
CoordinatorReturn ==
  /\ loop_free
  /\ stage = "gathering"
  /\ \A f \in Files : Resolved(f)
  /\ all_audit_results' = processed_results
  /\ stage' = "gathered"
  /\ UNCHANGED <<request_vars, file_state, task_vars, results, response, audit_jobs, events, arg, ret, job_tasks, http_error>>

----------------------------------------------------------------------------
(* POST /audit (audit_files)                                               *)

\* The loop of lines 97-137 (and 557-604) over all the files.
file_results(error_text) ==
  [i \in 1..NumFiles |->
     FileAuditResult(i, IF i <= Len(all_audit_results)
                        THEN all_audit_results[i].verdicts ELSE <<>>,
                     file_state, error_text)]

\* AuditResponse with only the files that gave verdicts counted as processed.
AuditResponse_counting_audited(audit_id, total_files, rs) ==
  [audit_id |-> audit_id, total_files |-> total_files,
   processed_files |-> Len(SelectSeq(rs, LAMBDA r : r.summary = None)),
   results |-> rs, overall_summary |-> _generate_overall_summary(rs)]

AuditResponse(audit_id, total_files, rs) ==
  [audit_id |-> audit_id, total_files |-> total_files, processed_files |-> Len(rs),
   results |-> rs, overall_summary |-> _generate_overall_summary(rs)]

\* What json.loads, AuditRequest(**request_data) and validate_and_save_files
\* make of a submission: accepted, or refused for its JSON, for its shape or
\* for one of its files.
Validities == {"ok", "bad json", "bad shape", "too many files", "bad file"}

\* validated with every submission let through.
validated_always(v) == TRUE

\* The handler goes on to the batch only when neither the parsing (lines
\* 71-77, 186-192, 288-294, 445-451) nor validate_and_save_files (lines 80,
\* 195, 299, 454) has raised.
validated(v) == v = "ok"

\* FileService.validate_and_save_files, lines 31-38, when item k is refused:
\* the items before it have been validated and saved, and the exception
\* leaves the loop with them on disk.
saved_before(k) == [f \in Files |-> IF f < k THEN "ok" ELSE "missing"]

\* The scratch location after a refused submission.  A request refused for
\* its JSON or its shape has saved nothing.  One refused for a file leaves
\* what validate_and_save_files had saved: `saved_files` was never bound, so
\* the handlers of lines 163-167, 272-276 and 487-491 skip the cleanup, and
\* the one of lines 301-303 has none.
\* One refused for the number of its items (file_service.py lines 25-29, ahead
\* of the loop) has saved nothing either.
rejected_files_counted_last(v, k, fs) ==
  IF v \in {"bad file", "too many files"} THEN saved_before(k) ELSE fs
rejected_files(v, k, fs) == IF v = "bad file" THEN saved_before(k) ELSE fs

\* raise HTTPException(status_code=...)
HTTPException(status_code) == [status_code |-> status_code]

\* What the caller of a refused submission gets.  The parsing and
\* validate_and_save_files raise HTTPException(400) (lines 74-77, 189-192,
\* 291-294, 303, 448-451; file_service.py 26, 46-76).  In /audit,
\* /audit/optimized and /audit/async they do so inside the try whose handler
\* is `except Exception` (lines 163-167, 272-276, 487-491): HTTPException is
\* an Exception, so the handler takes it and raises HTTPException(500).  In
\* /audit/stream nothing is around them.
refused(m, v) ==
  IF m = "stream" THEN HTTPException(400) ELSE HTTPException(500)

\* POST /audit, lines 66-92.  The request is parsed and the files are
\* validated and saved; a failure of either is raised to the caller.
\* Otherwise audit_multiple_files_parallel creates one task per file
\* (gemini_service.py lines 240-246).
SubmitSync ==
  /\ stage = "idle"
  /\ \E params \in Requests : \E custom \in CustomChoices(params) :
     \E fs \in FileStates : \E v \in Validities : \E k \in Files :
       /\ mode' = "sync"
       /\ validity' = v
       /\ UNCHANGED response
       /\ IF validated(v)
          THEN /\ parameters' = params
               /\ custom_prompts' = custom
               /\ file_state' = fs
               /\ UNCHANGED http_error
               /\ pc' = [f \in Files |-> "pending"]
               /\ stage' = "gathering"
          ELSE /\ stage' = "rejected"
               /\ http_error' = Some(refused("sync", v))
               /\ file_state' = rejected_files(v, k, file_state)
               /\ UNCHANGED <<parameters, custom_prompts, pc, arg, ret, job_tasks>>
       /\ UNCHANGED <<job_id, acc, path, oracle_log, all_audit_results,
                      results, audit_jobs, events, arg, ret, job_tasks>>

\* The coordinator has returned: the per-file results, the summary, the
\* cleanup and the response (lines 94-161).
SyncFinish ==
  /\ loop_free
  /\ stage = "gathered"
  /\ mode = "sync"
  /\ results' = file_results("Error processing file results: ")
  /\ response' = Some(AuditResponse("uuid4", NumFiles, results'))
  /\ file_state' = cleanup_files(file_state)
  /\ stage' = "responded"
  /\ UNCHANGED <<request_vars, task_vars, all_audit_results, audit_jobs, events, arg, ret, job_tasks, http_error>>

----------------------------------------------------------------------------
(* POST /audit/optimized (audit_files_optimized)                           *)

\* Line 268: the summary with the elapsed time and the mark of the endpoint
\* appended to its text.
optimized_summary(overall_summary) ==
  [text |-> overall_summary.text, total_files |-> overall_summary.total_files,
   successful_files |-> overall_summary.successful_files,
   avg_score |-> overall_summary.avg_score,
   appended |-> <<" | Processing time: ", "elapsed", "s (optimized)">>]

\* Lines 181-205: as POST /audit.
SubmitOptimized ==
  /\ stage = "idle"
  /\ \E params \in Requests : \E custom \in CustomChoices(params) :
     \E fs \in FileStates : \E v \in Validities : \E k \in Files :
       /\ mode' = "optimized"
       /\ validity' = v
       /\ UNCHANGED response
       /\ IF validated(v)
          THEN /\ parameters' = params
               /\ custom_prompts' = custom
               /\ file_state' = fs
               /\ UNCHANGED http_error
               /\ pc' = [f \in Files |-> "pending"]
               /\ stage' = "gathering"
          ELSE /\ stage' = "rejected"
               /\ http_error' = Some(refused("optimized", v))
               /\ file_state' = rejected_files(v, k, file_state)
               /\ UNCHANGED <<parameters, custom_prompts, pc, arg, ret, job_tasks>>
       /\ UNCHANGED <<job_id, acc, path, oracle_log, all_audit_results,
                      results, audit_jobs, events, arg, ret, job_tasks>>

\* Lines 207-270: the per-file results, the summary, the cleanup and the
\* response.
OptimizedFinish ==
  /\ loop_free
  /\ stage = "gathered"
  /\ mode = "optimized"
  /\ results' = file_results("Error processing file results: ")
  /\ response' = Some([AuditResponse("uuid4", NumFiles, results')
                         EXCEPT !.overall_summary = optimized_summary(@)])
  /\ file_state' = cleanup_files(file_state)
  /\ stage' = "responded"
  /\ UNCHANGED <<request_vars, task_vars, all_audit_results, audit_jobs, events, arg, ret, job_tasks, http_error>>

----------------------------------------------------------------------------
(* POST /audit/stream (audit_files_stream, generate_progress_stream)       *)

\* An event of the stream; file_index is the index the code sends (from 0),
\* and -1 in the events that are not about one file.
Event(type, file_index) == [type |-> type, file_index |-> file_index]

Last(evs) == evs[Len(evs)]

started_files(evs) ==
  Len(SelectSeq(evs, LAMBDA e : e.type = "file_started"))

\* stream_running with the loops going on after the handler of line 414.
stream_running_after_error(evs) ==
  evs # <<>> /\ Last(evs).type # "completed"

\* The generator is inside its try body: it has yielded `started` and no
\* terminal event.  After `completed` (line 412) the body ends; an
\* exception leaves the body for the handler of line 414.
stream_running(evs) ==
  evs # <<>> /\ Last(evs).type \notin {"completed", "error"}

\* next_started with saved_files enumerated from its end.
next_started_reversed(evs) == NumFiles - started_files(evs)

\* The loop of line 321 enumerates saved_files in order: the file of the
\* next file_started event.
next_started(evs) == started_files(evs) + 1

\* The task the generator creates when it is resumed after a file_started
\* event (line 327): that of the file the event was about, once.
create_task(evs) ==
  IF evs # <<>> /\ Last(evs).type = "file_started"
                /\ pc[Last(evs).file_index + 1] = "idle"
  THEN [pc EXCEPT ![Last(evs).file_index + 1] = "pending"]
  ELSE pc

\* The loop of line 335 takes the tasks in the order of file_tasks: the
\* file whose task is awaited next.
next_awaited(rs) == Len(rs) + 1

\* Lines 336-393, the FileAuditResult of file f once `await task` has
\* returned or raised.
stream_file_result(f) ==
  IF pc[f] = "raised"
  THEN [filename |-> f, file_size |-> 0, results |-> <<>>,
        overall_score |-> Some(<<0, 1>>),
        summary |-> Some(<<"Error processing file: ", FileError>>)]
  ELSE FileAuditResult(f, acc[f], file_state, "Error processing file: ")

\* Lines 287-303 and 421: the request is parsed and the files are validated
\* and saved before the generator is made; a failure of either is raised to
\* the caller.  Otherwise the response is returned with the generator,
\* which has not run yet.
SubmitStream ==
  /\ stage = "idle"
  /\ \E params \in Requests : \E custom \in CustomChoices(params) :
     \E fs \in FileStates : \E v \in Validities : \E k \in Files :
       /\ mode' = "stream"
       /\ validity' = v
       /\ UNCHANGED response
       /\ IF validated(v)
          THEN /\ parameters' = params
               /\ custom_prompts' = custom
               /\ file_state' = fs
               /\ UNCHANGED http_error
               /\ stage' = "streaming"
          ELSE /\ stage' = "rejected"
               /\ http_error' = Some(refused("stream", v))
               /\ file_state' = rejected_files(v, k, file_state)
               /\ UNCHANGED <<parameters, custom_prompts, arg, ret, job_tasks>>
       /\ UNCHANGED <<job_id, task_vars, all_audit_results, results,
                      audit_jobs, events, arg, ret, job_tasks>>

\* The consumer asks for the first event: lines 306-314.
StreamStarted ==
  /\ loop_free
  /\ stage = "streaming"
  /\ events = <<>>
  /\ events' = <<Event("started", -1)>>
  /\ UNCHANGED <<stage, request_vars, file_state, task_vars, all_audit_results,
                 results, response, audit_jobs, arg, ret, job_tasks, http_error>>

\* The consumer asks for the next event and the generator goes round the
\* loop of line 321: it creates the task of the file it has just announced,
\* if any, and announces the next file; get_file_info raising for that file
\* (line 323) is taken by the handler of line 414, which yields `error`.
StreamFileStarted ==
  /\ loop_free
  /\ stage = "streaming"
  /\ stream_running(events)
  /\ started_files(events) < NumFiles
  /\ pc' = create_task(events)
  /\ events' = Append(events,
       IF get_file_info_raises(next_started(events), file_state)
       THEN Event("error", -1)
       ELSE Event("file_started", next_started(events) - 1))
  /\ UNCHANGED <<stage, request_vars, file_state, acc, path, oracle_log,
                 all_audit_results, results, response, audit_jobs, arg, ret, job_tasks, http_error>>

\* The generator is resumed after the last file_started event: it creates
\* the last task and reaches `await task` for the first one (line 337).
StreamAwait ==
  /\ loop_free
  /\ stage = "streaming"
  /\ stream_running(events)
  /\ started_files(events) = NumFiles
  /\ Last(events).type = "file_started"
  /\ create_task(events) # pc
  /\ pc' = create_task(events)
  /\ UNCHANGED <<stage, request_vars, file_state, acc, path, oracle_log,
                 all_audit_results, results, response, audit_jobs, events, arg, ret, job_tasks, http_error>>

\* The awaited task has resolved: lines 336-393, the result of its file is
\* appended and file_completed or file_error is yielded.
StreamFileResolved ==
  /\ loop_free
  /\ stage = "streaming"
  /\ stream_running(events)
  /\ started_files(events) = NumFiles
  /\ create_task(events) = pc
  /\ next_awaited(results) <= NumFiles
  /\ Resolved(next_awaited(results))
  /\ LET f == next_awaited(results)
         r == stream_file_result(f)
     IN /\ results' = Append(results, r)
        /\ events' = Append(events,
             Event(IF r.summary = None THEN "file_completed" ELSE "file_error", f - 1))
  /\ UNCHANGED <<stage, request_vars, file_state, task_vars, all_audit_results,
                 response, audit_jobs, arg, ret, job_tasks, http_error>>

\* final_response with only the files that gave verdicts counted as processed.
final_response_counting_audited(total_files, rs) ==
  [type |-> "completed", file_index |-> -1, total_files |-> total_files,
   processed_files |-> Len(SelectSeq(rs, LAMBDA r : r.summary = None))]

\* Lines 403-411: the `completed` event and the counts it reports.
final_response(total_files, rs) ==
  [type |-> "completed", file_index |-> -1, total_files |-> total_files,
   processed_files |-> Len(rs)]

\* Lines 395-412: every task has been awaited; the summary is made, the
\* files are removed and `completed` is yielded, after which the body ends.
StreamCompleted ==
  /\ loop_free
  /\ stage = "streaming"
  /\ stream_running(events)
  /\ Len(results) = NumFiles
  /\ file_state' = cleanup_files(file_state)
  /\ events' = Append(events, final_response(NumFiles, results))
  /\ stage' = "closed"
  /\ UNCHANGED <<request_vars, task_vars, all_audit_results, results, response,
                 audit_jobs, arg, ret, job_tasks, http_error>>

\* Lines 418-419: the generator is resumed after `error`, removes the files
\* and ends.
StreamClose ==
  /\ loop_free
  /\ stage = "streaming"
  /\ events # <<>>
  /\ Last(events).type = "error"
  /\ file_state' = cleanup_files(file_state)
  /\ stage' = "closed"
  /\ UNCHANGED <<request_vars, task_vars, all_audit_results, results, response,
                 audit_jobs, events, arg, ret, job_tasks, http_error>>

\* The consumer goes away after `started`.  Nothing resumes the generator
\* from then on: it stays at the yield or the await it had reached, and what
\* is thrown into it to end it (GeneratorExit, CancelledError) is no
\* Exception, so the handler of line 414 does not run either.  The tasks it
\* created stay with the event loop.
Disconnect ==
  /\ stage = "streaming"
  /\ events # <<>>
  /\ stage' = "disconnected"
  /\ UNCHANGED <<request_vars, file_state, task_vars, all_audit_results, results,
                 response, audit_jobs, events, arg, ret, job_tasks, http_error>>

----------------------------------------------------------------------------
(* POST /audit/async, process_audit_job, GET /audit/status, /audit/result  *)

\* audit_files_async, lines 457-468.
new_job(total_files) ==
  [status |-> "processing", progress |-> <<0, 1>>, total_files |-> total_files,
   processed_files |-> 0, current_file |-> None, results |-> None,
   error |-> None, completed_at |-> None, processing_time |-> None]

\* completed_update with the response not attached.
completed_update_no_results(job, audit_response) ==
  [job EXCEPT !.status = "completed", !.progress = <<100, 1>>,
              !.current_file = None,
              !.completed_at = Some("set"), !.processing_time = Some("final")]

\* process_audit_job, lines 622-629.
completed_update(job, audit_response) ==
  [job EXCEPT !.status = "completed", !.progress = <<100, 1>>,
              !.current_file = None, !.results = Some(audit_response),
              !.completed_at = Some("set"), !.processing_time = Some("final")]

\* failed_update with the status left as it is.
failed_update_no_status(job) ==
  [job EXCEPT !.error = Some("run failed"),
              !.completed_at = Some("set"), !.processing_time = Some("final")]

\* process_audit_job, lines 640-645.
failed_update(job) ==
  [job EXCEPT !.status = "failed", !.error = Some("run failed"),
              !.completed_at = Some("set"), !.processing_time = Some("final")]

\* in_try_body with the cleanup after the update of line 622 raising too.
in_try_body_and_cleanup(st) == st \in {"gathered", "finished"}

\* The stages of process_audit_job at which an exception reaches the handler
\* of line 636: the try body up to the update of line 622.  Nothing after
\* that update raises (cleanup_files raises nothing).
in_try_body(st) == st = "gathered"

\* POST /audit/async, lines 441-491.  The request is parsed and the files
\* are validated and saved; a failure of either is raised to the caller.
\* Otherwise the job entry is created and the background task registered.
SubmitAsync ==
  /\ stage = "idle"
  /\ \E params \in Requests : \E custom \in CustomChoices(params) :
     \E fs \in FileStates : \E j \in JobIds : \E v \in Validities : \E k \in Files :
       /\ j \notin DOMAIN audit_jobs
       /\ mode' = "async"
       /\ job_id' = j
       /\ validity' = v
       /\ UNCHANGED response
       /\ IF validated(v)
          THEN /\ parameters' = params
               /\ custom_prompts' = custom
               /\ file_state' = fs
               /\ UNCHANGED http_error
               /\ audit_jobs' = (j :> new_job(NumFiles)) @@ audit_jobs
               /\ stage' = "registered"
          ELSE /\ stage' = "rejected"
               /\ http_error' = Some(refused("async", v))
               /\ file_state' = rejected_files(v, k, file_state)
               /\ UNCHANGED <<parameters, custom_prompts, audit_jobs, arg, ret, job_tasks>>
       /\ UNCHANGED <<task_vars, all_audit_results, results, events, arg, ret, job_tasks>>

\* The background task starts (lines 539-554): status and progress are
\* written and the coordinator creates one task per file.
JobStart ==
  /\ loop_free
  /\ stage = "registered"
  /\ audit_jobs' = [audit_jobs EXCEPT ![job_id] =
                      [@ EXCEPT !.status = "processing", !.progress = <<5, 1>>]]
  /\ pc' = [f \in Files |-> "pending"]
  /\ stage' = "gathering"
  /\ UNCHANGED <<request_vars, file_state, acc, path, oracle_log,
                 all_audit_results, results, response, events, arg, ret, job_tasks, http_error>>

\* loop_progress counting down from 90.
loop_progress_countdown(idx, total_files) ==
  <<90 * total_files - idx * 80, total_files>>

\* Line 562: 10 + (idx / total_files) * 80, as a fraction.
loop_progress(idx, total_files) ==
  <<10 * total_files + idx * 80, total_files>>

\* Lines 559-562 and 591 or 604: what one round of the loop writes to the
\* entry of the job.  get_file_info raising (line 560) skips the writes of
\* lines 561-562.
built_update(job, idx, total_files, raised, processed) ==
  IF raised
  THEN [job EXCEPT !.processed_files = processed]
  ELSE [job EXCEPT !.current_file = Some(idx),
                   !.progress = loop_progress(idx - 1, total_files),
                   !.processed_files = processed]

\* One round of the loop of lines 557-604, for the next file.
JobBuildFile ==
  /\ loop_free
  /\ stage = "gathered"
  /\ mode = "async"
  /\ Len(results) < NumFiles
  /\ LET idx == Len(results) + 1
     IN /\ results' = Append(results, file_results("Error processing file: ")[idx])
        /\ audit_jobs' = [audit_jobs EXCEPT ![job_id] =
             built_update(@, idx, NumFiles, get_file_info_raises(idx, file_state),
                          Len(results'))]
  /\ UNCHANGED <<stage, request_vars, file_state, task_vars, all_audit_results,
                 response, events, arg, ret, job_tasks, http_error>>

\* Lines 606-634: the response is built, the job completed, the files removed.
JobFinalize ==
  /\ loop_free
  /\ stage = "gathered"
  /\ mode = "async"
  /\ Len(results) = NumFiles
  /\ audit_jobs' = [audit_jobs EXCEPT ![job_id] =
                      completed_update(@, AuditResponse(job_id, NumFiles, results))]
  /\ file_state' = cleanup_files(file_state)
  /\ stage' = "finished"
  /\ UNCHANGED <<request_vars, task_vars, all_audit_results, results, response, events, arg, ret, job_tasks, http_error>>

\* Lines 636-649: an exception in the try body fails the job.  The task
\* ends, and what it held (the tasks of the files, its lists) is dropped.
JobFail ==
  /\ loop_free
  /\ mode = "async"
  /\ in_try_body(stage)
  /\ audit_jobs' = [audit_jobs EXCEPT ![job_id] = failed_update(@)]
  /\ file_state' = cleanup_files(file_state)
  /\ stage' = "finished"
  /\ pc' = [f \in Files |-> "idle"]
  /\ acc' = [f \in Files |-> <<>>]
  /\ path' = [f \in Files |-> "none"]
  /\ oracle_log' = [f \in Files |-> <<>>]
  /\ all_audit_results' = <<>>
  /\ results' = <<>>
  /\ UNCHANGED <<request_vars, response, events, arg, ret, job_tasks, http_error>>

\* get_audit_status (lines 493-507): the reply.  The entry returned is the
\* entry of the table, with the write of line 505 made to it.
get_audit_status(j) ==
  IF j \notin DOMAIN audit_jobs THEN [code |-> 404, body |-> None]
  ELSE [code |-> 200,
        body |-> Some(IF audit_jobs[j].status = "processing"
                      THEN [audit_jobs[j] EXCEPT !.processing_time = Some("live")]
                      ELSE audit_jobs[j])]

\* GET /audit/status/{job_id}: what the call leaves in the table.
GetStatus(j) ==
  /\ loop_free
  /\ j \in AskedIds
  /\ IF get_audit_status(j).code = 404
     THEN audit_jobs' = audit_jobs
     ELSE audit_jobs' = [audit_jobs EXCEPT ![j] =
                           CHOOSE job \in get_audit_status(j).body : TRUE]
  /\ UNCHANGED <<stage, request_vars, file_state, task_vars, all_audit_results,
                 results, response, events, arg, ret, job_tasks, http_error>>

\* get_audit_result with a failed job answered as an unknown one.
get_audit_result_failed_unknown(j) ==
  IF j \notin DOMAIN audit_jobs \/ audit_jobs[j].status = "failed"
  THEN [code |-> 404, body |-> None]
  ELSE IF audit_jobs[j].status # "completed" THEN [code |-> 202, body |-> None]
  ELSE [code |-> 200, body |-> audit_jobs[j].results]

\* get_audit_result (lines 509-528): the reply; the table is only read.
get_audit_result(j) ==
  IF j \notin DOMAIN audit_jobs THEN [code |-> 404, body |-> None]
  ELSE IF audit_jobs[j].status # "completed" THEN [code |-> 202, body |-> None]
  ELSE IF audit_jobs[j].results = None THEN [code |-> 500, body |-> None]
  ELSE [code |-> 200, body |-> audit_jobs[j].results]

\* GET /audit/result/{job_id}: a reply is made and nothing is written.
GetResult(j) ==
  /\ loop_free
  /\ j \in AskedIds
  /\ get_audit_result(j).code \in {200, 202, 404, 500}
  /\ UNCHANGED vars

----------------------------------------------------------------------------
(* Specifications                                                          *)

Next ==
  \/ SubmitSync
  \/ SubmitOptimized
  \/ SubmitStream
  \/ SubmitAsync
  \/ \E f \in Files : StartPipeline(f)
  \/ \E f \in Files : CombinedReturn(f)
  \/ \E f \in Files : ParamReturn(f)
  \/ CoordinatorReturn
  \/ SyncFinish
  \/ OptimizedFinish
  \/ StreamStarted
  \/ StreamFileStarted
  \/ StreamAwait
  \/ StreamFileResolved
  \/ StreamCompleted
  \/ StreamClose
  \/ Disconnect
  \/ JobStart
  \/ JobBuildFile
  \/ JobFinalize
  \/ JobFail
  \/ \E j \in AskedIds : GetStatus(j)
  \/ \E j \in AskedIds : GetResult(j)

Spec == Init /\ [][Next]_vars

\* The steps of the event loop's tasks, of the oracle and of a progress
\* stream whose consumer keeps reading, as opposed to the requests of the
\* callers.  The event loop runs every task that can run, every oracle call
\* is taken to return or fail, and a connected consumer asks for the next
\* event.
BackgroundStep ==
  \/ \E f \in Files : StartPipeline(f)
  \/ \E f \in Files : CombinedReturn(f)
  \/ \E f \in Files : ParamReturn(f)
  \/ CoordinatorReturn
  \/ SyncFinish
  \/ OptimizedFinish
  \/ StreamStarted
  \/ StreamFileStarted
  \/ StreamAwait
  \/ StreamFileResolved
  \/ StreamCompleted
  \/ StreamClose
  \/ JobStart
  \/ JobBuildFile
  \/ JobFinalize
  \/ JobFail

FairSpec == Spec /\ WF_vars(BackgroundStep)

\* As BackgroundStep, but the oracle is not taken to answer the calls made for
\* the first file: a call for it may stay in flight for ever.
SlowOracleStep ==
  \/ \E f \in Files : StartPipeline(f)
  \/ \E f \in Files \ {1} : CombinedReturn(f)
  \/ \E f \in Files \ {1} : ParamReturn(f)
  \/ CoordinatorReturn
  \/ SyncFinish
  \/ OptimizedFinish
  \/ StreamStarted
  \/ StreamFileStarted
  \/ StreamAwait
  \/ StreamFileResolved
  \/ StreamCompleted
  \/ StreamClose
  \/ JobStart
  \/ JobBuildFile
  \/ JobFinalize
  \/ JobFail

SlowOracleSpec == Spec /\ WF_vars(SlowOracleStep)

\* As BackgroundStep, but the oracle is not taken to answer the call made for
\* the first criterion of a file in audit_file: that call may stay in flight
\* for ever, the calls for the other criteria are answered.
HungCriterionStep ==
  \/ \E f \in Files : StartPipeline(f)
  \/ \E f \in Files : CombinedReturn(f)
  \/ \E f \in Files : acc[f] # <<>> /\ ParamReturn(f)
  \/ CoordinatorReturn
  \/ SyncFinish
  \/ OptimizedFinish
  \/ StreamStarted
  \/ StreamFileStarted
  \/ StreamAwait
  \/ StreamFileResolved
  \/ StreamCompleted
  \/ StreamClose
  \/ JobStart
  \/ JobBuildFile
  \/ JobFinalize
  \/ JobFail

HungCriterionSpec == Spec /\ WF_vars(HungCriterionStep)

----------------------------------------------------------------------------
(* The pure functions, each applied on its own to an argument              *)

main_vars == <<stage, mode, parameters, custom_prompts, file_state, pc, acc, path,
               oracle_log, all_audit_results, results, response,
               audit_jobs, job_id, validity, events, job_tasks, http_error>>

\* The lists of at most n elements of S.
RECURSIVE UpTo(_, _)
UpTo(S, n) ==
  IF n = 0 THEN {<<>>}
  ELSE UpTo(S, n - 1) \cup {Append(l, x) : l \in {m \in UpTo(S, n - 1) : Len(m) = n - 1}, x \in S}

\* The verdict lists _calculate_overall_score is applied to: affirmative
\* verdicts whose confidence is a percentage, a bare number or no number,
\* a negative and an indeterminate one.
MaxVerdicts == 3
ScoredVerdicts ==
  {Verdict("greeting", "Yes", <<"8","0","%">>, <<>>),
   Verdict("greeting", "Yes", <<"7","0">>, <<>>),
   Verdict("greeting", "Yes", <<"N/A">>, <<>>),
   Verdict("greeting", "No", <<"7","0","%">>, <<>>),
   Verdict("greeting", "Unknown", <<"N/A">>, <<>>)}
ScoreArgs ==
  [fn : {"_calculate_overall_score"}, audit_results : UpTo(ScoredVerdicts, MaxVerdicts)]

\* The result lists _generate_overall_summary is applied to: files with a
\* score, a file whose result is an error result (score 0.0, lines 131-137)
\* and a file with no score.
MaxResults == 3
SummarisedResults ==
  {[filename |-> 1, file_size |-> 1001, results |-> <<>>,
    overall_score |-> Some(<<80, 1>>), summary |-> None],
   [filename |-> 1, file_size |-> 1001, results |-> <<>>,
    overall_score |-> Some(<<80, 2>>), summary |-> None],
   [filename |-> 1, file_size |-> 0, results |-> <<>>,
    overall_score |-> Some(<<0, 1>>),
    summary |-> Some(<<"Error processing file: ", FileError>>)],
   [filename |-> 1, file_size |-> 1001, results |-> <<>>,
    overall_score |-> None, summary |-> None]}
SummaryArgs ==
  [fn : {"_generate_overall_summary"}, results : UpTo(SummarisedResults, MaxResults)]

\* The texts _parse_response is applied to.
ParsedTexts ==
  {TextYes,
   <<"N","o"," ","5","%">>,
   <<"u","n","k","n","o","w","n">>,
   <<"m","a","y","b","e","\n","4","0","%","\n","x">>,
   <<"N","o",","," ","y","e","s">>,
   <<"n","o","t">>,
   <<"Y","e","s","\n","a","\n","9","%">>,
   <<>>}
ParseArgs == [fn : {"_parse_response"}, text : ParsedTexts]

\* The combined responses the decode step of audit_file_optimized is applied
\* to, each with the criteria that were requested.
DecodeArgs ==
  UNION {{[fn |-> "decode", resp |-> resp, parameters |-> params] :
            resp \in {r \in CombinedResponses(params) : r.ok}} : params \in Requests}

\* The identifiers the catalog is asked about: its own, and some it does not
\* have (one of them differs from a key only by case).
UnknownIds == {"tone", "Greeting", ""}
ResolveArgs == [fn : {"get_prompt_for_parameter"}, parameter : AUDIT_PROMPTS \cup UnknownIds]
AllParametersArgs == {[fn |-> "get_all_parameters"]}

PureArgs ==
  ScoreArgs \cup SummaryArgs \cup ParseArgs \cup DecodeArgs \cup ResolveArgs
  \cup AllParametersArgs

PureInit ==
  /\ Idle
  /\ arg \in PureArgs
  /\ ret = None

\* _calculate_overall_score is called and returns.
ApplyScore ==
  /\ arg.fn = "_calculate_overall_score"
  /\ ret = None
  /\ ret' = Some(_calculate_overall_score(arg.audit_results))
  /\ UNCHANGED <<main_vars, arg>>

\* _generate_overall_summary is called and returns.
ApplySummary ==
  /\ arg.fn = "_generate_overall_summary"
  /\ ret = None
  /\ ret' = Some(_generate_overall_summary(arg.results))
  /\ UNCHANGED <<main_vars, arg>>

\* What ret holds of the calls made so far, in order.
Returned == IF ret = None THEN <<>> ELSE CHOOSE x \in ret : TRUE

\* ApplyParse with the reasoning lines kept from one call to the next.
ApplyParseKeepingLines ==
  /\ arg.fn = "_parse_response"
  /\ Len(Returned) < 2
  /\ LET parsed == _parse_response(arg.text)
     IN ret' = Some(Append(Returned,
                  IF Returned = <<>> THEN parsed
                  ELSE [parsed EXCEPT !.reasoning = Returned[1].reasoning \o @]))
  /\ UNCHANGED <<main_vars, arg>>

\* _parse_response is called on the text, and once again on the same text
\* (lines 104-141: the locals are set anew in each call, nothing of `self`
\* is read or written).
ApplyParse ==
  /\ arg.fn = "_parse_response"
  /\ Len(Returned) < 2
  /\ ret' = Some(Append(Returned, _parse_response(arg.text)))
  /\ UNCHANGED <<main_vars, arg>>

\* Lines 181-230 on the text of a combined response: how the decoding ends
\* and the verdicts it gives.
decode_step(resp, params) ==
  [outcome |-> combined_outcome(resp),
   verdicts |-> IF combined_outcome(resp) = "decoded"
                THEN decode_combined(resp, params) ELSE <<>>]

\* The decode step is applied to the text, and once again to the same text.
ApplyDecode ==
  /\ arg.fn = "decode"
  /\ Len(Returned) < 2
  /\ ret' = Some(Append(Returned, decode_step(arg.resp, arg.parameters)))
  /\ UNCHANGED <<main_vars, arg>>

\* get_prompt_for_parameter is called and returns.
ApplyResolve ==
  /\ arg.fn = "get_prompt_for_parameter"
  /\ ret = None
  /\ ret' = Some(get_prompt_for_parameter(arg.parameter))
  /\ UNCHANGED <<main_vars, arg>>

\* get_all_parameters is called and returns.
ApplyAllParameters ==
  /\ arg.fn = "get_all_parameters"
  /\ ret = None
  /\ ret' = Some(get_all_parameters)
  /\ UNCHANGED <<main_vars, arg>>

PureNext ==
  \/ ApplyResolve
  \/ ApplyAllParameters
  \/ ApplyScore
  \/ ApplySummary
  \/ ApplyParse
  \/ ApplyDecode

PureSpec == PureInit /\ [][PureNext]_vars

----------------------------------------------------------------------------
(* The job table shared by several asynchronous submissions                *)

\* What the steps on the table leave alone.
table_frame == <<stage, mode, parameters, custom_prompts, file_state, pc, acc, path,
                 oracle_log, all_audit_results, results, response, job_id,
                 validity, events, arg, ret, http_error>>

\* The results the loop of lines 557-604 can make for a file: one with a
\* score, and the error result of lines 597-603.
TableFileResults ==
  {r \in SummarisedResults : r.overall_score \in {Some(<<80, 1>>), Some(<<0, 1>>)}}
TableErrorResults == {r \in TableFileResults : r.summary # None}

\* TableSubmit with the table made anew for the job.
TableSubmit_fresh_table(j) ==
  /\ job_tasks[j].at = "none"
  /\ j \notin DOMAIN audit_jobs
  /\ \E v \in Validities : \E n \in 1..NumFiles :
       IF validated(v)
       THEN /\ audit_jobs' = (j :> new_job(n))
            /\ job_tasks' = [job_tasks EXCEPT ![j] =
                 [at |-> "registered", saved_files |-> n, results |-> <<>>]]
       ELSE UNCHANGED <<audit_jobs, job_tasks>>
  /\ UNCHANGED table_frame

\* POST /audit/async, lines 441-477, with the identifier j drawn by uuid4
\* (line 441): a refused submission writes nothing to the table; otherwise
\* the entry of j is created for the n saved files and the background task
\* registered.
TableSubmit(j) ==
  /\ job_tasks[j].at = "none"
  /\ j \notin DOMAIN audit_jobs
  /\ \E v \in Validities : \E n \in 1..NumFiles :
       IF validated(v)
       THEN /\ audit_jobs' = (j :> new_job(n)) @@ audit_jobs
            /\ job_tasks' = [job_tasks EXCEPT ![j] =
                 [at |-> "registered", saved_files |-> n, results |-> <<>>]]
       ELSE UNCHANGED <<audit_jobs, job_tasks>>
  /\ UNCHANGED table_frame

\* process_audit_job, lines 542-554: the task of job j starts and reaches
\* the await of audit_multiple_files_parallel.
TableJobStart(j) ==
  /\ job_tasks[j].at = "registered"
  /\ audit_jobs' = [audit_jobs EXCEPT ![j] =
                      [@ EXCEPT !.status = "processing", !.progress = <<5, 1>>]]
  /\ job_tasks' = [job_tasks EXCEPT ![j].at = "gathering"]
  /\ UNCHANGED table_frame

\* Line 550: audit_multiple_files_parallel has returned to the task of j.
TableJobGathered(j) ==
  /\ job_tasks[j].at = "gathering"
  /\ job_tasks' = [job_tasks EXCEPT ![j].at = "gathered"]
  /\ UNCHANGED <<audit_jobs, table_frame>>

\* One round of the loop of lines 557-604 in the task of j.
TableJobBuildFile(j) ==
  /\ job_tasks[j].at = "gathered"
  /\ Len(job_tasks[j].results) < job_tasks[j].saved_files
  /\ \E raised \in BOOLEAN :
     \E r \in (IF raised THEN TableErrorResults ELSE TableFileResults) :
       LET idx == Len(job_tasks[j].results) + 1
       IN /\ job_tasks' = [job_tasks EXCEPT ![j].results = Append(@, r)]
          /\ audit_jobs' = [audit_jobs EXCEPT ![j] =
               built_update(@, idx, job_tasks[j].saved_files, raised, idx)]
  /\ UNCHANGED table_frame

\* Lines 606-634 in the task of j.
TableJobFinalize(j) ==
  /\ job_tasks[j].at = "gathered"
  /\ Len(job_tasks[j].results) = job_tasks[j].saved_files
  /\ audit_jobs' = [audit_jobs EXCEPT ![j] =
       completed_update(@, AuditResponse(j, job_tasks[j].saved_files,
                                         job_tasks[j].results))]
  /\ job_tasks' = [job_tasks EXCEPT ![j].at = "ended"]
  /\ UNCHANGED table_frame

\* Lines 636-649 in the task of j.
TableJobFail(j) ==
  /\ in_try_body(job_tasks[j].at)
  /\ audit_jobs' = [audit_jobs EXCEPT ![j] = failed_update(@)]
  /\ job_tasks' = [job_tasks EXCEPT ![j].at = "ended", ![j].results = <<>>]
  /\ UNCHANGED table_frame

JobsNext ==
  \/ \E j \in TableIds : TableSubmit(j)
  \/ \E j \in TableIds : TableJobStart(j)
  \/ \E j \in TableIds : TableJobGathered(j)
  \/ \E j \in TableIds : TableJobBuildFile(j)
  \/ \E j \in TableIds : TableJobFinalize(j)
  \/ \E j \in TableIds : TableJobFail(j)
  \/ \E j \in AskedIds : GetStatus(j)
  \/ \E j \in AskedIds : GetResult(j)

JobsSpec == Init /\ [][JobsNext]_vars

----------------------------------------------------------------------------
(* Properties                                                              *)

\* The batch results the program has handed out: the response of /audit and
\* the results attached to jobs.
BatchResults ==
  response \cup UNION {audit_jobs[j].results : j \in DOMAIN audit_jobs}

Requested == {parameters[k] : k \in 1..Len(parameters)}

\* The per-criterion calls of file f, in order.
ParamCalls(f) == SelectSeq(oracle_log[f], LAMBDA e : e.kind = "param")

\* The combined call of file f failed or did not decode.
CombinedFailed(f) ==
  /\ oracle_log[f] # <<>>
  /\ oracle_log[f][1].kind = "combined"
  /\ (~oracle_log[f][1].ok
      \/ oracle_log[f][1].body \notin {"object", "object without results"})

CombinedDecoded(f) ==
  /\ oracle_log[f] # <<>>
  /\ oracle_log[f][1].kind = "combined"
  /\ oracle_log[f][1].ok
  /\ oracle_log[f][1].body \in {"object", "object without results"}

\* C1: the coordinator returns exactly one entry per input file, entry i made
\* by the task of file i, whatever the tasks resolved to and in whatever
\* order; the batch result built from it has one result per input file,
\* result i being that of file i.
C1_FanOutAligned ==
  /\ stage = "gathered" =>
       /\ Len(all_audit_results) = NumFiles
       /\ \A i \in 1..NumFiles : all_audit_results[i].file = i
  /\ \A r \in BatchResults :
       /\ Len(r.results) = NumFiles
       /\ r.processed_files = NumFiles
       /\ \A i \in 1..NumFiles : r.results[i].filename = i

\* C1 witness: a batch result exists for a batch in which one task raised
\* and another returned after falling back.
C1_Witness ==
  /\ BatchResults # {}
  /\ \E f, g \in Files : pc[f] = "raised" /\ pc[g] = "done" /\ CombinedFailed(g)

\* C2 (as claimed), for the file results that carry no error annotation: the
\* verdict list has one entry per requested criterion, names each requested
\* criterion exactly once and names no other criterion.
C2_OneVerdictPerCriterion ==
  \A r \in BatchResults : \A i \in 1..Len(r.results) :
    r.results[i].summary = None =>
      LET vs == r.results[i].results
      IN /\ Len(vs) = Len(parameters)
         /\ \A p \in Requested : Cardinality({k \in 1..Len(vs) : vs[k].parameter = p}) = 1
         /\ \A k \in 1..Len(vs) : vs[k].parameter \in Requested

\* C3 (as claimed): the verdict list a pipeline returns is in request order:
\* verdict i is for requested criterion i.
C3_RequestOrder ==
  \A f \in Files : pc[f] = "done" =>
    \A i \in 1..Len(acc[f]) :
      i <= Len(parameters) => acc[f][i].parameter = parameters[i]

\* C4 (as claimed): no pipeline ever raises past its boundary.
C4_NeverRaises == \A f \in Files : pc[f] # "raised"

\* C4 (amended): a pipeline raises exactly when its file cannot be read, and
\* then before any per-criterion oracle call, and before any oracle call at
\* all unless the files were removed under the running task (which only the
\* progress stream does); a pipeline whose file can be read never raises,
\* whatever oracle calls failed and whatever did not decode.
C4_RaisesOnlyOnReadFailure ==
  \A f \in Files :
    /\ pc[f] = "raised" =>
         /\ file_state[f] # "ok"
         /\ ParamCalls(f) = <<>>
         /\ mode # "stream" => oracle_log[f] = <<>>
    /\ (stage \in {"gathering", "gathered"} /\ pc[f] \in {"combined", "percrit", "done"})
         => file_state[f] = "ok"

\* C4 witness: one file could not be read and its pipeline raised, while a
\* sibling's combined call failed, one of its per-criterion calls failed too,
\* and it still returned a verdict list.
C4_Witness ==
  \E f, g \in Files :
    /\ pc[f] = "raised"
    /\ pc[g] = "done" /\ CombinedFailed(g)
    /\ \E k \in 1..Len(ParamCalls(g)) : ~ParamCalls(g)[k].ok
    /\ Len(acc[g]) = Len(parameters)

\* C5: without override instructions, a file whose combined call failed or
\* did not decode gets exactly one per-criterion call for each requested
\* criterion, in request order, and a file whose combined response decoded
\* gets no per-criterion call, whatever happened to the other files.
C5_FallbackForThatFileOnly ==
  \A f \in Files : (pc[f] = "done" /\ custom_prompts = {}) =>
    /\ CombinedFailed(f) \/ CombinedDecoded(f)
    /\ CombinedDecoded(f) => Len(oracle_log[f]) = 1
    /\ CombinedFailed(f) =>
         /\ Len(oracle_log[f]) = 1 + Len(parameters)
         /\ \A k \in 1..Len(parameters) :
              /\ oracle_log[f][k + 1].kind = "param"
              /\ oracle_log[f][k + 1].prompt.parameters = <<parameters[k]>>

\* C5 witness: one file fell back after a response that did not decode and
\* completed in per-criterion mode, while a sibling completed from its
\* decoded combined response.
C5_Witness ==
  \E f, g \in Files :
    /\ pc[f] = "done" /\ CombinedFailed(f) /\ oracle_log[f][1].ok
    /\ pc[g] = "done" /\ CombinedDecoded(g)

\* C6: in per-criterion mode the k-th verdict is decided by the k-th call
\* alone: Unknown with confidence N/A and the error as rationale when that
\* call failed, what the parser makes of that call's text otherwise; and a
\* pipeline that returns from per-criterion mode has called the oracle for
\* every requested criterion, whatever calls failed.
C6_FailureOfOneCriterionOnly ==
  \A f \in Files : path[f] # "none" =>
    /\ Len(ParamCalls(f)) = Len(acc[f])
    /\ pc[f] = "done" => Len(ParamCalls(f)) = Len(parameters)
    /\ \A k \in 1..Len(acc[f]) :
         /\ acc[f][k].parameter = parameters[k]
         /\ ParamCalls(f)[k].prompt.parameters = <<parameters[k]>>
         /\ IF ParamCalls(f)[k].ok
            THEN /\ acc[f][k].verdict = ParseVerdict(strip(ParamCalls(f)[k].text))
                 /\ acc[f][k].confidence = ParseConfidence(strip(ParamCalls(f)[k].text))
                 /\ acc[f][k].reasoning = ParseReasoning(strip(ParamCalls(f)[k].text))
            ELSE /\ acc[f][k].verdict = "Unknown"
                 /\ acc[f][k].confidence = <<"N/A">>
                 /\ acc[f][k].reasoning = <<"Error: ", OracleError>>

\* C6 witness: a pipeline returned from per-criterion mode with the call for
\* its first criterion failed and the call for its second one answered.
C6_Witness ==
  \E f \in Files :
    /\ pc[f] = "done" /\ path[f] # "none" /\ Len(parameters) = 2
    /\ ~ParamCalls(f)[1].ok /\ ParamCalls(f)[2].ok
    /\ acc[f][1].verdict = "Unknown" /\ acc[f][2].verdict = "Yes"

\* The requested criteria no record of file f's combined response names.
Omitted(f) ==
  {p \in Requested :
     \A i \in 1..Len(oracle_log[f][1].records) : oracle_log[f][1].records[i].parameter # p}

Placeholder(p, reasoning) == Verdict(p, "Unknown", <<"N/A">>, reasoning)

\* C7 (as claimed): a requested criterion that a decoded combined response
\* does not name is in the verdict list as an Unknown verdict whose rationale
\* is "criterion not returned in batch response".
C7_PlaceholderSpecText ==
  \A f \in Files : (pc[f] = "done" /\ CombinedDecoded(f)) =>
    \A p \in Omitted(f) :
      \E k \in 1..Len(acc[f]) :
        acc[f][k] = Placeholder(p, <<"criterion not returned in batch response">>)

\* C7 (amended): such a criterion is in the verdict list exactly once, as an
\* Unknown verdict with confidence N/A whose rationale is "Parameter not
\* processed in combined response".
C7_PlaceholderForOmitted ==
  \A f \in Files : (pc[f] = "done" /\ CombinedDecoded(f)) =>
    \A p \in Omitted(f) :
      /\ Cardinality({k \in 1..Len(acc[f]) : acc[f][k].parameter = p}) = 1
      /\ \E k \in 1..Len(acc[f]) :
           acc[f][k] = Placeholder(p, <<"Parameter not processed in combined response">>)

\* C7 witness: a decoded combined response left out a requested criterion
\* and named another one.
C7_Witness ==
  \E f \in Files :
    /\ pc[f] = "done" /\ CombinedDecoded(f)
    /\ Omitted(f) # {} /\ Omitted(f) # Requested

\* C8 (as claimed): the result of a file whose pipeline raised carries zero
\* verdicts and an error annotation.
C8_ZeroVerdicts ==
  \A r \in BatchResults : \A i \in 1..Len(r.results) :
    pc[i] = "raised" =>
      r.results[i].results = <<>> /\ r.results[i].summary # None

IsErrorVerdict(v, p) ==
  /\ v.parameter = p /\ v.verdict = "Unknown" /\ v.confidence = <<"N/A">>
  /\ v.reasoning = <<"Error processing file: ", FileError>>

\* C8 (amended): the coordinator turns a pipeline that raised into one
\* Unknown verdict per requested criterion, each with the error as its
\* rationale, and returns the verdicts of every sibling as its task returned
\* them; in the batch result the failed file has these verdicts and no
\* annotation, or no verdict and an error annotation when its metadata
\* cannot be read either, and every sibling has its own result.
C8_FailedFileIsolated ==
  /\ stage = "gathered" =>
       \A f \in Files :
         /\ pc[f] = "raised" =>
              /\ Len(all_audit_results[f].verdicts) = Len(parameters)
              /\ \A k \in 1..Len(parameters) :
                   IsErrorVerdict(all_audit_results[f].verdicts[k], parameters[k])
         /\ pc[f] = "done" => all_audit_results[f].verdicts = acc[f]
  /\ \A r \in BatchResults : \A i \in 1..NumFiles :
       /\ i <= Len(r.results)
       /\ pc[i] = "raised" =>
            \/ /\ r.results[i].summary = None
               /\ Len(r.results[i].results) = Len(parameters)
               /\ \A k \in 1..Len(parameters) :
                    IsErrorVerdict(r.results[i].results[k], parameters[k])
            \/ r.results[i].summary # None /\ r.results[i].results = <<>>
       /\ (pc[i] = "done" /\ r.results[i].summary = None) => r.results[i].results = acc[i]

\* C8 witness: a batch result in which the pipeline of an unreadable file
\* raised and a sibling's result holds the verdicts its pipeline returned.
C8_Witness ==
  \E r \in BatchResults : \E f, g \in Files :
    /\ pc[f] = "raised" /\ r.results[f].summary = None
    /\ Len(r.results[f].results) = Len(parameters)
    /\ pc[g] = "done" /\ r.results[g].results = acc[g] /\ acc[g] # <<>>

\* C9: a job's status changes only from processing to completed or to
\* failed, and no job leaves the table.
C9_StatusTransitions ==
  [][\A j \in DOMAIN audit_jobs :
       /\ j \in DOMAIN audit_jobs'
       /\ audit_jobs'[j].status # audit_jobs[j].status =>
            /\ audit_jobs[j].status = "processing"
            /\ audit_jobs'[j].status \in {"completed", "failed"}]_vars

\* C9 witness: a job is completed with its result attached.
C9_Witness ==
  \E j \in DOMAIN audit_jobs :
    audit_jobs[j].status = "completed" /\ audit_jobs[j].results # None

\* C10: every job in the table eventually is completed or failed, and a
\* failed job carries the error text.
C10_JobTerminates ==
  /\ \A j \in JobIds :
       (j \in DOMAIN audit_jobs) ~>
         (j \in DOMAIN audit_jobs /\ audit_jobs[j].status \in {"completed", "failed"})
  /\ [](\A j \in DOMAIN audit_jobs :
          audit_jobs[j].status = "failed" => audit_jobs[j].error # None)

\* C10 witness: the background run failed and the job is failed, with the
\* error text.
C10_Witness ==
  \E j \in DOMAIN audit_jobs :
    audit_jobs[j].status = "failed" /\ audit_jobs[j].error = Some("run failed")

\* C11: a job has a result attached exactly when it is completed and an
\* error text exactly when it is failed; a result fetch for a completed job
\* returns the result, and the "completed but no results" reply is never
\* made.
C11_ResultIffCompleted ==
  \A j \in DOMAIN audit_jobs :
    /\ audit_jobs[j].results # None <=> audit_jobs[j].status = "completed"
    /\ audit_jobs[j].error # None <=> audit_jobs[j].status = "failed"
    /\ get_audit_result(j).code # 500
    /\ audit_jobs[j].status = "completed" =>
         get_audit_result(j) = [code |-> 200, body |-> audit_jobs[j].results]

\* C11 witness: a result fetch returns the result of a completed job, which
\* holds one file result per file.
C11_Witness ==
  \E j \in DOMAIN audit_jobs :
    /\ audit_jobs[j].status = "completed"
    /\ get_audit_result(j).code = 200
    /\ \A r \in get_audit_result(j).body : Len(r.results) = NumFiles

\* C12: a result fetch is answered 404 exactly for an id that is not in
\* the table, 202 exactly for a job of the table that is not completed, and
\* with the attached result exactly for a completed job; a status poll is
\* answered 404 exactly for an id that is not in the table.
C12_PollReplies ==
  \A j \in AskedIds :
    LET known == j \in DOMAIN audit_jobs
    IN /\ get_audit_result(j).code = 404 <=> ~known
       /\ get_audit_result(j).code = 202 <=>
            (known /\ audit_jobs[j].status \in {"processing", "failed"})
       /\ get_audit_result(j).code = 200 <=>
            (known /\ audit_jobs[j].status = "completed")
       /\ get_audit_result(j).code = 200 =>
            get_audit_result(j).body = audit_jobs[j].results
       /\ get_audit_result(j).code \in {200, 202, 404}
       /\ get_audit_status(j).code = 404 <=> ~known
       /\ get_audit_status(j).code = 200 <=> known

\* C12 witness: the table holds a failed job, a fetch of its result is
\* answered 202, and a fetch and a poll for another id are answered 404.
C12_Witness ==
  \E j \in DOMAIN audit_jobs : \E x \in AskedIds \ DOMAIN audit_jobs :
    /\ audit_jobs[j].status = "failed"
    /\ get_audit_result(j).code = 202
    /\ get_audit_result(x).code = 404
    /\ get_audit_status(x).code = 404

\* a <= b for fractions with positive denominators.
Leq(a, b) == a[1] * b[2] <= b[1] * a[2]

\* C13: the progress of a job is within 0..100, below 100 while the job is
\* processing and 100 when it is completed; it is 0 when the job is created
\* and no step makes it smaller.
C13_ProgressMonotone ==
  /\ [](\A j \in DOMAIN audit_jobs :
          LET p == audit_jobs[j].progress
          IN /\ Leq(<<0, 1>>, p) /\ Leq(p, <<100, 1>>)
             /\ audit_jobs[j].status = "processing" => ~Leq(<<100, 1>>, p)
             /\ audit_jobs[j].status = "completed" => p = <<100, 1>>)
  /\ [][\A j \in DOMAIN audit_jobs' :
          IF j \in DOMAIN audit_jobs
          THEN Leq(audit_jobs[j].progress, audit_jobs'[j].progress)
          ELSE audit_jobs'[j].progress = <<0, 1>>]_vars

\* C13 witness: a job is processing with its progress above the 10 of the
\* first round of the loop.
C13_Witness ==
  \E j \in DOMAIN audit_jobs :
    /\ audit_jobs[j].status = "processing"
    /\ ~Leq(audit_jobs[j].progress, <<10, 1>>)

\* C14 (as claimed): a status poll and a result fetch leave the job table
\* as it is.
C14_PollsReadOnly ==
  [][(\E j \in AskedIds : GetStatus(j) \/ GetResult(j))
       => audit_jobs' = audit_jobs]_vars

\* A file_completed or file_error event for file f has been yielded.
Emitted(f) ==
  \E i \in 1..Len(events) :
    events[i].type \in {"file_completed", "file_error"} /\ events[i].file_index = f - 1

C16_StartedFirstInOrder ==
  /\ events # <<>> => events[1].type = "started"
  /\ \A i \in 1..Len(events) :
       /\ events[i].type = "started" => i = 1
       /\ events[i].type = "file_started" => events[i].file_index = i - 2
       /\ events[i].type \in {"file_completed", "file_error"} =>
            /\ i > NumFiles + 1
            /\ \A k \in 0..(NumFiles - 1) : events[k + 2] = Event("file_started", k)

\* C16 witness: a stream has yielded the file_started events of all the
\* files and then a file_error and a file_completed event.
C16_Witness ==
  /\ started_files(events) = NumFiles
  /\ \E i, k \in 1..Len(events) :
       events[i].type = "file_error" /\ events[k].type = "file_completed"

\* completed and error are the terminal events.
Terminal(e) == e.type \in {"completed", "error"}

\* C17: a progress stream yields nothing after a terminal event, hence at
\* most one terminal event and never both completed and error; a stream
\* that has ended has yielded one; and a stream whose consumer stays
\* connected ends.
C17_OneTerminalEvent ==
  /\ [](\A i \in 1..Len(events) : Terminal(events[i]) => i = Len(events))
  /\ [](stage = "closed" => (events # <<>> /\ Terminal(Last(events))))
  /\ (stage = "streaming") ~> (stage \in {"closed", "disconnected"})

\* C17 witness: a stream has ended with `error` after a file_started event.
C17_Witness ==
  /\ stage = "closed"
  /\ Last(events).type = "error"
  /\ started_files(events) > 0

\* C18 (as claimed): after the consumer of a progress stream has gone, the
\* staged files of the batch are eventually removed.
C18_CleanupAfterDisconnect ==
  (stage = "disconnected") ~> (\A f \in Files : file_state[f] = "missing")

\* What POST /audit makes of the outcomes the tasks have resolved to in this
\* state: audit_multiple_files_parallel and the loop of lines 97-137.
sync_results ==
  [i \in 1..NumFiles |->
     FileAuditResult(i, task_result(i), file_state, "Error processing file results: ")]

\* C19 (as claimed): the four modes give the same content for the same
\* inputs and the same oracle behaviour: the file results the asynchronous
\* job and the progress stream have built when every file is done are those
\* POST /audit builds from the same task outcomes, and the summary of a
\* response is the summary of its file results.
C19_ModesEquivalent ==
  /\ (/\ mode \in {"async", "stream"}
      /\ stage \in {"gathered", "streaming", "disconnected"}
      /\ Len(results) = NumFiles) => results = sync_results
  /\ \A r \in response :
       DOMAIN r.overall_summary = DOMAIN _generate_overall_summary(r.results)

\* C20: a submission that fails parsing or validation is rejected and
\* nothing starts: no task is created, no oracle call is made, no entry is
\* added to the job table, no event is yielded and no response is built.
C20_RejectedNeverStarts ==
  validity # "ok" =>
    /\ stage = "rejected"
    /\ \A f \in Files : pc[f] = "idle" /\ oracle_log[f] = <<>>
    /\ DOMAIN audit_jobs = {}
    /\ events = <<>>
    /\ response = None

\* C20 witness: an asynchronous submission was rejected for one of its
\* files.
C20_Witness ==
  stage = "rejected" /\ mode = "async" /\ validity = "bad file"

\* C21: after a submission is refused, no staged file of the batch remains
\* in the scratch location, in every submission mode.
C21_RejectedLeavesNothing ==
  stage = "rejected" => \A f \in Files : file_state[f] = "missing"

\* C22: one file's latency cannot block another's completion: whether or
\* not the oracle answers for the first file, the task of every other file
\* of the batch, once created, resolves.
C22_OthersComplete ==
  \A b \in Files \ {1} : (pc[b] = "pending") ~> Resolved(b)

\* The decimal numeral of n, digit by digit.
RECURSIVE Numeral(_)
Numeral(n) ==
  IF n < 10 THEN <<ToString(n)>> ELSE Numeral(n \div 10) \o <<ToString(n % 10)>>

\* The percentage a confidence states, 100 when it states none.
Percentage(confidence) ==
  IF \E n \in 0..100 : confidence \in {Numeral(n), Numeral(n) \o <<"%">>}
  THEN CHOOSE n \in 0..100 : confidence \in {Numeral(n), Numeral(n) \o <<"%">>}
  ELSE 100

RECURSIVE SumPercentage(_, _)
SumPercentage(rs, S) ==
  IF S = {} THEN 0
  ELSE LET i == CHOOSE x \in S : TRUE
       IN Percentage(rs[i].confidence) + SumPercentage(rs, S \ {i})

ScoreExample ==
  <<Verdict("greeting", "Yes", <<"8","0","%">>, <<>>),
    Verdict("greeting", "No", <<"7","0","%">>, <<>>),
    Verdict("greeting", "Unknown", <<"N/A">>, <<>>)>>

\* C23: the score of a verdict list is the sum of the percentages of its
\* Yes verdicts (100 for a confidence that states none) divided by the
\* number of its Yes and No verdicts, Unknown verdicts counting in neither;
\* it is 0 for an empty list and for one with no Yes or No verdict; the
\* score of [Yes 80%, No, Unknown] is 40.
C23_Score ==
  (arg.fn = "_calculate_overall_score" /\ ret # None) =>
    LET rs == arg.audit_results
        yes == {i \in DOMAIN rs : rs[i].verdict = "Yes"}
        no == {i \in DOMAIN rs : rs[i].verdict = "No"}
        score == CHOOSE x \in ret : TRUE
    IN /\ score[2] > 0
       /\ yes \cup no = {} => score[1] = 0
       /\ yes \cup no # {} =>
            score[1] * Cardinality(yes \cup no) = SumPercentage(rs, yes) * score[2]
       /\ rs = ScoreExample => score[1] = 40 * score[2]

\* C23 witness: the score of [Yes 80%, No, Unknown] has been computed.
C23_Witness ==
  /\ arg.fn = "_calculate_overall_score"
  /\ arg.audit_results = ScoreExample
  /\ ret = Some(<<80, 2>>)

\* The score a file counts with in the mean: its own, 0 when it has none.
CountedScore(r) ==
  IF r.overall_score = None THEN <<0, 1>> ELSE CHOOSE x \in r.overall_score : TRUE

\* The sum of the counted scores of the files at the positions in S.
RECURSIVE SumCounted(_, _)
SumCounted(rs, S) ==
  IF S = {} THEN <<0, 1>>
  ELSE LET i == CHOOSE x \in S : TRUE
           a == CountedScore(rs[i])
           b == SumCounted(rs, S \ {i})
       IN <<a[1] * b[2] + b[1] * a[2], a[2] * b[2]>>

\* C24: the batch summary reports the mean of the scores of all the files,
\* a file with no score counting as 0 and a file with an error result
\* counting in the denominator; for no file at all it is exactly the text
\* "No files were processed.".
C24_Summary ==
  (arg.fn = "_generate_overall_summary" /\ ret # None) =>
    LET rs == arg.results
        summary == CHOOSE x \in ret : TRUE
        avg == summary.avg_score
        sum == SumCounted(rs, DOMAIN rs)
    IN /\ rs = <<>> <=> summary.text = "No files were processed."
       /\ rs # <<>> =>
            /\ avg[2] > 0
            /\ summary.total_files = Len(rs)
            /\ avg[1] * sum[2] * Len(rs) = sum[1] * avg[2]

\* C24 witness: the summary of a file with score 80, a file with an error
\* result and a file with no score has been made: the mean is 80/3.
C24_Witness ==
  /\ arg.fn = "_generate_overall_summary"
  /\ Len(arg.results) = 3
  /\ arg.results[1].overall_score = Some(<<80, 1>>)
  /\ arg.results[2].summary # None
  /\ arg.results[3].overall_score = None
  /\ \E summary \in ret : summary.avg_score[1] * 3 = 80 * summary.avg_score[2]

C26_LookupTotal ==
  /\ (arg.fn = "get_prompt_for_parameter" /\ ret # None) =>
       \E prompt \in ret :
         /\ prompt.parameters = <<arg.parameter>>
         /\ arg.parameter \in AUDIT_PROMPTS => prompt.src = "catalog"
         /\ arg.parameter \notin AUDIT_PROMPTS => prompt.src = "generic"
  /\ (arg.fn = "get_all_parameters" /\ ret # None) =>
       \E listed \in ret : DOMAIN listed = AUDIT_PROMPTS

\* C26 witness: an identifier the catalog does not have has been resolved
\* to the generic instruction.
C26_Witness ==
  /\ arg.fn = "get_prompt_for_parameter"
  /\ arg.parameter = "tone"
  /\ ret = Some([src |-> "generic", parameters |-> <<"tone">>])

\* C27: when the request carries an override instruction (for a requested
\* criterion in particular), the task of a file makes no combined call and
\* sends, for each criterion, the override text if the criterion has one
\* and the catalog instruction otherwise; when it carries none, a task that
\* can read its file goes to the combined call, and the first call a task
\* makes is the combined one.
C27_OverridesSkipCombined ==
  /\ [](\A f \in Files :
          /\ custom_prompts # {} =>
               /\ pc[f] # "combined"
               /\ \A i \in 1..Len(oracle_log[f]) :
                    /\ oracle_log[f][i].kind = "param"
                    /\ oracle_log[f][i].prompt.parameters = <<parameters[i]>>
                    /\ oracle_log[f][i].prompt.src =
                         IF parameters[i] \in custom_prompts THEN "custom" ELSE "catalog"
          /\ (custom_prompts = {} /\ oracle_log[f] # <<>>) =>
               oracle_log[f][1].kind = "combined")
  /\ [][\A f \in Files :
          (pc[f] = "pending" /\ pc'[f] # "pending" /\ file_state[f] = "ok") =>
            (pc'[f] = "combined" <=> custom_prompts = {})]_vars

\* C27 witness: a request for two criteria overrides the first; a task has
\* made both calls, the first with the override text and the second with
\* the catalog instruction.
C27_Witness ==
  \E f \in Files :
    /\ Len(parameters) = 2
    /\ custom_prompts = {parameters[1]}
    /\ pc[f] = "done"
    /\ Len(oracle_log[f]) = 2
    /\ oracle_log[f][1].prompt.src = "custom"
    /\ oracle_log[f][2].prompt.src = "catalog"

\* The oracle calls made for the files 1..n.
RECURSIVE OracleCalls(_)
OracleCalls(n) == IF n = 0 THEN 0 ELSE Len(oracle_log[n]) + OracleCalls(n - 1)

\* C28: without override instructions the task of a file calls the oracle
\* exactly once when the combined call succeeds and its response decodes,
\* and at most 1 + M times otherwise, M being the number of requested
\* criteria; a batch of N files whose combined calls all succeed and decode
\* makes exactly N oracle calls.
C28_CallCount ==
  custom_prompts = {} =>
    /\ \A f \in Files : Len(oracle_log[f]) <= 1 + Len(parameters)
    /\ \A f \in Files : CombinedDecoded(f) => Len(oracle_log[f]) = 1
    /\ (\A f \in Files : CombinedDecoded(f)) => OracleCalls(NumFiles) = NumFiles

\* C28 witness: two criteria are requested, the combined call of every file
\* has succeeded and decoded, and every task has returned.
C28_Witness ==
  /\ custom_prompts = {}
  /\ Len(parameters) = 2
  /\ \A f \in Files : pc[f] = "done" /\ CombinedDecoded(f)
  /\ OracleCalls(NumFiles) = NumFiles

\* C29: a combined response that is well formed but has not the expected
\* shape (an object with no `results` list) is a decode failure answered by
\* the per-criterion fallback: the task of the file does not return on that
\* response alone, with placeholders for all the criteria.
C29_ShapeMismatchFallsBack ==
  \A f \in Files :
    (/\ oracle_log[f] # <<>>
     /\ oracle_log[f][1].kind = "combined"
     /\ oracle_log[f][1].ok
     /\ oracle_log[f][1].body = "object without results")
    => /\ ~(pc[f] = "done" /\ Len(oracle_log[f]) = 1)
       /\ \A i \in 1..Len(acc[f]) : acc[f][i].reasoning # NotProcessed

\* C30: in the decoding of a combined response, a record that has the
\* criterion identifier, the outcome and the confidence is accepted, the
\* rationale being optional and empty when absent: the verdicts of the file
\* hold that record's outcome and confidence with an empty rationale.
C30_RationaleOptional ==
  \A f \in Files :
    (pc[f] = "done" /\ CombinedDecoded(f)) =>
      \A i \in 1..Len(oracle_log[f][1].records) :
        LET r == oracle_log[f][1].records[i]
        IN ({"parameter", "verdict", "confidence"} \subseteq r.has
              /\ "reasoning" \notin r.has)
           => \E n \in 1..Len(acc[f]) :
                acc[f][n] = Verdict(r.parameter, r.verdict, r.confidence, <<>>)


\* The words of a text: its maximal runs of letters, in lower case.
IsLetter(c) == \E i \in 1..Len(LowerCase) : LowerCase[i] = LowerChar(c)
WordsOf(text) ==
  {SubSeq(lower(text), w[1], w[2]) :
     w \in {<<a, b>> \in (1..Len(text)) \X (1..Len(text)) :
              /\ a <= b
              /\ \A k \in a..b : IsLetter(text[k])
              /\ (a = 1 \/ ~IsLetter(text[a - 1]))
              /\ (b = Len(text) \/ ~IsLetter(text[b + 1]))}}
\* The decision table on the tokens "yes" and "no".
TokenVerdict(text) ==
  IF <<"y","e","s">> \in WordsOf(text) THEN "Yes"
  ELSE IF <<"n","o">> \in WordsOf(text) THEN "No"
  ELSE "Unknown"

\* C31: the verdict _parse_response returns is the one of the decision table
\* on the tokens of the text, case-insensitively: Yes when the token "yes"
\* is present, No when "no" is present and "yes" is not, Unknown when
\* neither is, also for a text whose words merely contain those letters.
C31_DecisionTable ==
  arg.fn = "_parse_response" /\ Len(Returned) >= 1
    => Returned[1].verdict = TokenVerdict(arg.text)


\* The stripped non-empty lines after the first marker line, marker lines
\* among them included.
RECURSIVE LinesAfterFirstMarker(_, _)
LinesAfterFirstMarker(lines, found) ==
  IF lines = <<>> THEN <<>>
  ELSE IF found
       THEN (IF strip(Head(lines)) # <<>> THEN <<strip(Head(lines))>> ELSE <<>>)
            \o LinesAfterFirstMarker(Tail(lines), TRUE)
  ELSE LinesAfterFirstMarker(Tail(lines),
                             \E w \in MarkerWords : Contains(lower(Head(lines)), w))
RationaleAfterFirstMarker(text) ==
  LET following == LinesAfterFirstMarker(split(text), FALSE)
  IN IF following # <<>> THEN join(following) ELSE text

\* C32: the reasoning _parse_response returns is every non-empty line after
\* the first line that mentions yes, no, confidence or %, joined in order,
\* later lines that mention a marker included; it is the whole text when no
\* line mentions a marker or nothing follows the first one that does.
C32_RationaleAfterFirstMarker ==
  arg.fn = "_parse_response" /\ Len(Returned) >= 1
    => Returned[1].reasoning = RationaleAfterFirstMarker(arg.text)


\* C33: in audit_file, with the call for the first criterion of a file left
\* unanswered, the calls for the other criteria of that file are still made
\* and answered.
C33_OtherCriteriaCalled ==
  \A f \in Files :
    (pc[f] = "percrit" /\ Len(parameters) > 1)
      ~> (\A k \in 2..Len(parameters) :
              \E e \in 1..Len(ParamCalls(f)) :
                ParamCalls(f)[e].prompt =
                  _get_prompt_for_parameter(parameters[k], custom_prompts))


\* C34: a submission with more items than MAX_FILES_PER_REQUEST is refused
\* as a whole before any item is validated or saved: the step that refuses
\* it leaves the scratch location as it was.
C34_TooManyFilesSavesNothing ==
  [][stage = "idle" /\ validity' = "too many files"
       => stage' = "rejected" /\ file_state' = file_state]_vars

\* C34 witness: a submission has been refused for the number of its items,
\* and nothing is in the scratch location.
C34_Witness ==
  /\ stage = "rejected"
  /\ validity = "too many files"
  /\ mode = "optimized"
  /\ \A f \in Files : file_state[f] = "missing"


\* C35: for every job, processed_files never decreases and never exceeds
\* total_files; in a completed job processed_files, total_files, the number
\* of results of the response and the processed_files of the response are
\* equal, whichever files gave an error result.
C35_ProcessedFiles ==
  /\ [](\A j \in DOMAIN audit_jobs :
          LET job == audit_jobs[j]
          IN /\ job.processed_files <= job.total_files
             /\ job.status = "completed" =>
                  \E audit_response \in job.results :
                    /\ job.processed_files = job.total_files
                    /\ job.total_files = Len(audit_response.results)
                    /\ Len(audit_response.results) = audit_response.processed_files
                    /\ audit_response.total_files = job.total_files)
  /\ [][\A j \in DOMAIN audit_jobs' :
          IF j \in DOMAIN audit_jobs
          THEN audit_jobs[j].processed_files <= audit_jobs'[j].processed_files
          ELSE audit_jobs'[j].processed_files = 0]_vars

\* C35 witness: a job has completed with an error result for one file and
\* verdicts for another.
C35_Witness ==
  \E j \in DOMAIN audit_jobs :
    /\ audit_jobs[j].status = "completed"
    /\ \E audit_response \in audit_jobs[j].results :
         /\ \E i \in 1..Len(audit_response.results) :
              audit_response.results[i].summary # None
         /\ \E i \in 1..Len(audit_response.results) :
              /\ audit_response.results[i].summary = None
              /\ audit_response.results[i].results # <<>>


\* The positions of the stream at which an event of one of the types is
\* about file index k.
EventsAbout(k, types) ==
  {i \in 1..Len(events) : events[i].type \in types /\ events[i].file_index = k}

\* C36: in a stream that ends with `completed`, every file index 0..N-1 has
\* exactly one resolution event, file_completed or file_error, emitted after
\* the file_started event of that file, and the `completed` event reports
\* processed_files = total_files = N.
C36_OneResolutionPerFile ==
  events # <<>> /\ Last(events).type = "completed" =>
    /\ \A k \in 0..(NumFiles - 1) :
         /\ Cardinality(EventsAbout(k, {"file_completed", "file_error"})) = 1
         /\ Cardinality(EventsAbout(k, {"file_started"})) = 1
         /\ \A i \in EventsAbout(k, {"file_completed", "file_error"}) :
              \A j \in EventsAbout(k, {"file_started"}) : j < i
    /\ Last(events).processed_files = NumFiles
    /\ Last(events).total_files = NumFiles

\* C36 witness: a stream has ended with `completed` after a file_error for
\* one file and a file_completed for another.
C36_Witness ==
  /\ events # <<>>
  /\ Last(events).type = "completed"
  /\ \E i \in 1..Len(events) : events[i].type = "file_error"
  /\ \E i \in 1..Len(events) : events[i].type = "file_completed"


\* A pipeline task of the batch has been created and has not resolved.
Unresolved(g) == pc[g] \in {"pending", "combined", "percrit"}

\* C37: cleanup removes a staged file of a batch only when no pipeline task
\* of that batch is unresolved, in every mode and on the run-level error
\* paths, and after the response, the end of the stream or the end of the
\* job no staged file is left.
C37_CleanupAfterPipelines ==
  /\ [][(\E f \in Files : file_state[f] # "missing" /\ file_state'[f] = "missing")
          => \A g \in Files : ~Unresolved(g)]_vars
  /\ [](stage \in {"responded", "closed", "finished"}
          => \A f \in Files : file_state[f] = "missing")


\* C39: a submission whose request is no JSON or has not the shape of an
\* AuditRequest is refused with status 400 by every submission endpoint,
\* never with status 500.
C39_MalformedIs400 ==
  stage = "rejected" /\ validity \in {"bad json", "bad shape"}
    => \A exc \in http_error : exc.status_code = 400


\* C38: jobs are isolated in the shared table.  A submission adds exactly
\* one entry and changes no other; a step of the background task of a job
\* changes the entry of that job only; no entry is removed; and a job that
\* has been submitted is never answered as not found, under every
\* interleaving of submissions, background tasks and polls.
C38_JobsIsolated ==
  /\ [][/\ DOMAIN audit_jobs \subseteq DOMAIN audit_jobs'
        /\ \A a \in TableIds :
             job_tasks'[a] # job_tasks[a] =>
               /\ \A b \in DOMAIN audit_jobs \ {a} : audit_jobs'[b] = audit_jobs[b]
               /\ DOMAIN audit_jobs' \subseteq DOMAIN audit_jobs \cup {a}
               /\ job_tasks[a].at = "none" => DOMAIN audit_jobs' = DOMAIN audit_jobs \cup {a}]_vars
  /\ [](\A a \in TableIds :
          job_tasks[a].at # "none" =>
            /\ get_audit_status(a).code # 404
            /\ get_audit_result(a).code # 404)

\* C38 witness: two jobs are in the table, one completed with its results
\* and the other still in its loop with a file processed.
C38_Witness ==
  \E a \in TableIds : \E b \in TableIds \ {a} :
    /\ {a, b} \subseteq DOMAIN audit_jobs
    /\ audit_jobs[a].status = "completed"
    /\ audit_jobs[a].results # None
    /\ audit_jobs[b].status = "processing"
    /\ audit_jobs[b].processed_files = 1
    /\ job_tasks[b].saved_files = 2

====
